---- MODULE Spec2Model ----
(***************************************************************************)
(* Model of the in-memory relational engine of src/rdbms.py: Column,       *)
(* Index, Table, Database, SQLParser._parse_where and RDBMS.execute.       *)
(*                                                                         *)
(* Python values are records [t, i, s]: t is the Python type, i the        *)
(* number (an int, a bool as 0/1, a float in tenths) and s the text of a   *)
(* str as a sequence of one-character strings.  A Python dict whose key    *)
(* order matters is a sequence of [k, v] records with distinct keys.       *)
(*                                                                         *)
(* clause is the WHERE clause, as written, of the last statement that was  *)
(* executed from its text; it is <<>> until there is one.                  *)
(***************************************************************************)
EXTENDS Integers, Sequences, FiniteSets, TLC

VARIABLES tables, disk, stmt, result, insLog, fs, clause

vars == <<tables, disk, stmt, result, insLog, fs, clause>>

(***************************************************************************)
(* Bounds of the model.                                                    *)
(***************************************************************************)
\* INSERT is run on a table while its identity counter is below MaxInserts
\* and it holds fewer than MaxRows rows
MaxInserts == 2

MaxRows == 2

\* the joined tables of SpecJoin hold up to MaxJoinRows rows each
MaxJoinRows == 2

(***************************************************************************)
(* Python values.                                                          *)
(***************************************************************************)
Null == [t |-> "null", i |-> 0, s |-> <<>>]

IntV(n) == [t |-> "int", i |-> n, s |-> <<>>]

BoolV(b) == [t |-> "bool", i |-> IF b THEN 1 ELSE 0, s |-> <<>>]

FloatV(tenths) == [t |-> "float", i |-> tenths, s |-> <<>>]

StrV(chars) == [t |-> "str", i |-> 0, s |-> chars]

IsNumeric(v) == v.t \in {"int", "bool", "float"}

\* the number a numeric value stands for, in tenths
Tenths(v) == IF v.t = "float" THEN v.i ELSE 10 * v.i

Digits == <<"0", "1", "2", "3", "4", "5", "6", "7", "8", "9">>

DigitOf(c) == (CHOOSE d \in 1..10 : Digits[d] = c) - 1

IsDigit(c) == \E d \in 1..10 : Digits[d] = c

RECURSIVE NatToStr(_)
NatToStr(n) ==
    IF n < 10 THEN <<Digits[n + 1]>>
    ELSE NatToStr(n \div 10) \o <<Digits[(n % 10) + 1]>>

IntToStr(n) == IF n < 0 THEN <<"-">> \o NatToStr(-n) ELSE NatToStr(n)

RECURSIVE DigitsToNat(_)
DigitsToNat(chars) ==
    IF chars = <<>> THEN 0
    ELSE 10 * DigitsToNat(SubSeq(chars, 1, Len(chars) - 1))
         + DigitOf(chars[Len(chars)])

AllDigits(chars) == chars # <<>> /\ \A k \in 1..Len(chars) : IsDigit(chars[k])

Unsigned(chars) == IF chars # <<>> /\ chars[1] = "-" THEN Tail(chars) ELSE chars

Sign(chars) == IF chars # <<>> /\ chars[1] = "-" THEN -1 ELSE 1

\* int(str) succeeds on an optionally signed run of digits
StrIsInt(chars) == AllDigits(Unsigned(chars))

StrToInt(chars) == Sign(chars) * DigitsToNat(Unsigned(chars))

\* float(str) succeeds on an int text or on digits "." one digit
StrIsFloat(chars) ==
    \/ StrIsInt(chars)
    \/ LET u == Unsigned(chars) IN
         /\ Len(u) >= 3
         /\ u[Len(u) - 1] = "."
         /\ AllDigits(SubSeq(u, 1, Len(u) - 2))
         /\ IsDigit(u[Len(u)])

StrToFloat(chars) ==
    IF StrIsInt(chars) THEN 10 * StrToInt(chars)
    ELSE LET u == Unsigned(chars) IN
         Sign(chars) * (10 * DigitsToNat(SubSeq(u, 1, Len(u) - 2))
                        + DigitOf(u[Len(u)]))

\* int(float) truncates toward zero
Trunc(tenths) == IF tenths >= 0 THEN tenths \div 10 ELSE -((-tenths) \div 10)

\* str(value)
PyStr(v) ==
    CASE v.t = "str" -> v.s
      [] v.t = "int" -> IntToStr(v.i)
      [] v.t = "bool" -> IF v.i = 1 THEN <<"T", "r", "u", "e">>
                         ELSE <<"F", "a", "l", "s", "e">>
      [] v.t = "float" ->
           (IF v.i < 0 THEN <<"-">> ELSE <<>>)
           \o NatToStr((IF v.i < 0 THEN -v.i ELSE v.i) \div 10)
           \o <<".">>
           \o <<Digits[((IF v.i < 0 THEN -v.i ELSE v.i) % 10) + 1]>>
      [] OTHER -> <<"N", "o", "n", "e">>

LowerChar(c) ==
    CASE c = "T" -> "t" [] c = "F" -> "f" [] c = "R" -> "r" [] c = "U" -> "u"
      [] c = "E" -> "e" [] c = "A" -> "a" [] c = "L" -> "l" [] c = "S" -> "s"
      [] OTHER -> c

\* str.lower()
Lower(chars) == [k \in 1..Len(chars) |-> LowerChar(chars[k])]

\* Python ==  (1 == 1.0 == True; a str equals only an equal str)
PyEq(a, b) ==
    CASE a.t = "null" \/ b.t = "null" -> a.t = b.t
      [] a.t = "str" \/ b.t = "str" -> a.t = b.t /\ a.s = b.s
      [] OTHER -> Tenths(a) = Tenths(b)

CharCodes == <<"-", ".", "0", "1", "2", "3", "4", "5", "6", "7", "8", "9",
               "A", "E", "F", "L", "R", "S", "T", "U",
               "a", "b", "c", "e", "f", "l", "r", "s", "t", "u", "x", "z">>

Ord(c) == CHOOSE k \in 1..Len(CharCodes) : CharCodes[k] = c

RECURSIVE StrLess(_, _)
StrLess(x, y) ==
    IF y = <<>> THEN FALSE
    ELSE IF x = <<>> THEN TRUE
    ELSE IF x[1] = y[1] THEN StrLess(Tail(x), Tail(y))
    ELSE Ord(x[1]) < Ord(y[1])

\* an ordered comparison of a str with a number (or with None) raises TypeError
Comparable(a, b) ==
    \/ IsNumeric(a) /\ IsNumeric(b)
    \/ a.t = "str" /\ b.t = "str"

PyLess(a, b) ==
    IF a.t = "str" THEN StrLess(a.s, b.s) ELSE Tenths(a) < Tenths(b)

\* the key under which a dict files a value: equal values share one key
KeyOf(v) ==
    IF IsNumeric(v) THEN [t |-> "num", i |-> Tenths(v), s |-> <<>>] ELSE v

(***************************************************************************)
(* Python dicts with insertion order: sequences of [k, v], distinct keys.  *)
(***************************************************************************)
DHas(d, key) == \E j \in 1..Len(d) : d[j].k = key

DGet(d, key, default) ==
    IF DHas(d, key) THEN d[CHOOSE j \in 1..Len(d) : d[j].k = key].v ELSE default

\* d[key] = value: an existing key keeps its position
DSet(d, key, value) ==
    IF DHas(d, key)
    THEN [j \in 1..Len(d) |-> IF d[j].k = key THEN [k |-> key, v |-> value] ELSE d[j]]
    ELSE Append(d, [k |-> key, v |-> value])

DKeys(d) == [j \in 1..Len(d) |-> d[j].k]

\* dict(zip(keys, values))
RECURSIVE ZipDict(_, _)
ZipDict(keys, values) ==
    IF keys = <<>> \/ values = <<>> THEN <<>>
    ELSE LET n == IF Len(keys) < Len(values) THEN Len(keys) ELSE Len(values)
         IN DSet(ZipDict(SubSeq(keys, 1, n - 1), SubSeq(values, 1, n - 1)),
                 keys[n], values[n])

(***************************************************************************)
(* Column                                                                  *)
(***************************************************************************)
Column(name, data_type, length, primary_key, unique, nullable) ==
    [name |-> name, data_type |-> data_type, length |-> length,
     primary_key |-> primary_key, unique |-> unique, nullable |-> nullable]

Msg(kind, arg) == [kind |-> kind, arg |-> arg]

OK == Msg("OK", "")

BoolTexts == {<<"t", "r", "u", "e">>, <<"f", "a", "l", "s", "e">>, <<"1">>, <<"0">>}

\* Column.validate
Validate(col, value) ==
    IF value = Null
    THEN IF ~col.nullable /\ ~col.primary_key
         THEN Msg("cannot be NULL", col.name) ELSE OK
    ELSE CASE col.data_type = "INT" ->
                IF value.t \in {"int", "bool"} THEN OK
                ELSE IF value.t = "float" \/ StrIsInt(value.s) THEN OK
                ELSE Msg("Invalid INT value", col.name)
           [] col.data_type = "FLOAT" ->
                IF IsNumeric(value) THEN OK
                ELSE IF StrIsFloat(value.s) THEN OK
                ELSE Msg("Invalid FLOAT value", col.name)
           [] col.data_type = "VARCHAR" ->
                IF /\ col.length # Null
                   /\ col.length.i # 0
                   /\ Len(PyStr(value)) > col.length.i
                THEN Msg("VARCHAR value too long", col.name) ELSE OK
           [] col.data_type = "BOOLEAN" ->
                IF value.t = "bool" THEN OK
                ELSE IF Lower(PyStr(value)) \in BoolTexts THEN OK
                ELSE Msg("Invalid BOOLEAN value", col.name)
           [] OTHER -> OK

\* Column.convert
Convert(col, value) ==
    IF value = Null THEN Null
    ELSE CASE col.data_type = "INT" ->
                IF value.t = "str" THEN IntV(StrToInt(value.s))
                ELSE IF value.t = "float" THEN IntV(Trunc(value.i))
                ELSE IntV(value.i)
           [] col.data_type = "FLOAT" ->
                IF value.t = "str" THEN FloatV(StrToFloat(value.s))
                ELSE FloatV(Tenths(value))
           [] col.data_type = "VARCHAR" -> StrV(PyStr(value))
           [] col.data_type = "BOOLEAN" ->
                IF value.t = "bool" THEN value
                ELSE BoolV(Lower(PyStr(value)) \in {<<"t", "r", "u", "e">>, <<"1">>})
           [] OTHER -> value

(***************************************************************************)
(* Index: a dict from value to the list of row identities.                 *)
(***************************************************************************)
EmptyIndex == [key \in {} |-> <<>>]

\* Index.add
IndexAdd(index, value, row_id) ==
    LET key == KeyOf(value) IN
    IF key \in DOMAIN index
    THEN [index EXCEPT ![key] = Append(@, row_id)]
    ELSE [x \in DOMAIN index \cup {key} |->
             IF x = key THEN <<row_id>> ELSE index[x]]

\* list.remove(x): drop the first element equal to x
RemoveFirst(list, x) ==
    IF \E j \in 1..Len(list) : PyEq(list[j], x)
    THEN LET p == CHOOSE j \in 1..Len(list) :
                      /\ PyEq(list[j], x)
                      /\ \A q \in 1..(j - 1) : ~PyEq(list[q], x)
         IN SubSeq(list, 1, p - 1) \o SubSeq(list, p + 1, Len(list))
    ELSE list

\* Index.remove
IndexRemove(index, value, row_id) ==
    LET key == KeyOf(value) IN
    IF key \in DOMAIN index
    THEN LET bucket == RemoveFirst(index[key], row_id) IN
         IF bucket = <<>>
         THEN [x \in DOMAIN index \ {key} |-> index[x]]
         ELSE [index EXCEPT ![key] = bucket]
    ELSE index

\* Index.lookup
IndexLookup(index, value) ==
    IF KeyOf(value) \in DOMAIN index THEN index[KeyOf(value)] ELSE <<>>

(***************************************************************************)
(* WHERE conditions.  A parsed WHERE is a dict from column to [op, val];   *)
(* op "=" stands for the bare value the parser stores for an equality.     *)
(* The evaluation is written four times in the source, once per caller.    *)
(***************************************************************************)
Cond(op, val) == [op |-> op, val |-> val]

Ordered(row_val, val, holds) ==
    IF row_val = Null \/ val = Null THEN "no"
    ELSE IF ~Comparable(row_val, val) THEN "raise"
    ELSE IF holds THEN "yes" ELSE "no"

\* Table.select, the comparison of one condition
SelectCond(row_val, op, val) ==
    CASE op = ">" -> Ordered(row_val, val, PyLess(val, row_val))
      [] op = "<" -> Ordered(row_val, val, PyLess(row_val, val))
      [] op = ">=" -> Ordered(row_val, val, ~PyLess(row_val, val))
      [] op = "<=" -> Ordered(row_val, val, ~PyLess(val, row_val))
      [] op = "!=" -> IF ~PyEq(row_val, val) THEN "yes" ELSE "no"
      [] OTHER -> IF PyEq(row_val, val) THEN "yes" ELSE "no"

\* UpdateCond with a NULL row value ranked above every value
UpdateCondNullsLast(row_val, op, val) ==
    IF row_val = Null /\ val # Null /\ op \in {">", ">="} THEN "yes"
    ELSE SelectCond(row_val, op, val)

\* Table.update, the comparison of one condition
UpdateCond(row_val, op, val) ==
    CASE op = ">" -> Ordered(row_val, val, PyLess(val, row_val))
      [] op = "<" -> Ordered(row_val, val, PyLess(row_val, val))
      [] op = ">=" -> Ordered(row_val, val, ~PyLess(row_val, val))
      [] op = "<=" -> Ordered(row_val, val, ~PyLess(val, row_val))
      [] op = "!=" -> IF ~PyEq(row_val, val) THEN "yes" ELSE "no"
      [] OTHER -> IF PyEq(row_val, val) THEN "yes" ELSE "no"

\* Table.delete, the comparison of one condition
DeleteCond(row_val, op, val) ==
    CASE op = ">" -> Ordered(row_val, val, PyLess(val, row_val))
      [] op = "<" -> Ordered(row_val, val, PyLess(row_val, val))
      [] op = ">=" -> Ordered(row_val, val, ~PyLess(row_val, val))
      [] op = "<=" -> Ordered(row_val, val, ~PyLess(val, row_val))
      [] op = "!=" -> IF ~PyEq(row_val, val) THEN "yes" ELSE "no"
      [] OTHER -> IF PyEq(row_val, val) THEN "yes" ELSE "no"

\* RDBMS.execute, SELECT_JOIN: the comparison of one condition
JoinCond(row_val, op, val) ==
    CASE op = ">" -> Ordered(row_val, val, PyLess(val, row_val))
      [] op = "<" -> Ordered(row_val, val, PyLess(row_val, val))
      [] op = ">=" -> Ordered(row_val, val, ~PyLess(row_val, val))
      [] op = "<=" -> Ordered(row_val, val, ~PyLess(val, row_val))
      [] op = "!=" -> IF ~PyEq(row_val, val) THEN "yes" ELSE "no"
      [] OTHER -> IF PyEq(row_val, val) THEN "yes" ELSE "no"

\* the loop over where.items(): the first condition that fails or raises decides
FirstFailure(verdicts) ==
    IF \A j \in 1..Len(verdicts) : verdicts[j] = "yes" THEN "yes"
    ELSE verdicts[CHOOSE j \in 1..Len(verdicts) :
                      /\ verdicts[j] # "yes"
                      /\ \A q \in 1..(j - 1) : verdicts[q] = "yes"]

\* "if where:" is false for None and for the empty dict
SelectMatch(row, where) ==
    FirstFailure([j \in 1..Len(where) |->
        IF where[j].k \notin DOMAIN row THEN "no"
        ELSE SelectCond(row[where[j].k], where[j].v.op, where[j].v.val)])

UpdateMatch(row, where) ==
    FirstFailure([j \in 1..Len(where) |->
        IF where[j].k \notin DOMAIN row THEN "no"
        ELSE UpdateCond(row[where[j].k], where[j].v.op, where[j].v.val)])

DeleteMatch(row, where) ==
    FirstFailure([j \in 1..Len(where) |->
        IF where[j].k \notin DOMAIN row THEN "no"
        ELSE DeleteCond(row[where[j].k], where[j].v.op, where[j].v.val)])

\* SQLParser._parse_where: conds are the conditions between the ANDs, each
\* the column, operator and literal its text parses to; where[col] = ...
RECURSIVE ParseWhere(_)
ParseWhere(conds) ==
    IF conds = <<>> THEN <<>>
    ELSE LET c == conds[Len(conds)] IN
         DSet(ParseWhere(SubSeq(conds, 1, Len(conds) - 1)),
              c.col, Cond(c.op, c.val))

(***************************************************************************)
(* A WHERE clause as written: the sequence of its conditions, each with    *)
(* the word that stands before it (AND in some spelling; unused for the    *)
(* first), the table name that qualifies its column ("" for none), and     *)
(* the column, operator and INT literal.                                   *)
(***************************************************************************)
Condition(sep, qual, col, op, val) ==
    [sep |-> sep, qual |-> qual, col |-> col, op |-> op, val |-> val]

\* where_clause.split(' AND '): the conditions that no ' AND ' in capitals
\* separates stay together in one part
RECURSIVE SplitAnd(_, _)
SplitAnd(text, n) ==
    IF n = 0 THEN <<>>
    ELSE LET front == SplitAnd(text, n - 1) IN
         IF n = 1 \/ text[n].sep = "AND" THEN Append(front, <<text[n]>>)
         ELSE [front EXCEPT ![Len(front)] = Append(@, text[n])]

\* the text of a part from its second condition on, as the sequence of its
\* words
RECURSIVE RestText(_, _)
RestText(part, n) ==
    IF n <= 1 THEN <<>>
    ELSE RestText(part, n - 1)
         \o <<" ", part[n].sep, " ">>
         \o (IF part[n].qual = "" THEN <<>> ELSE <<part[n].qual, ".">>)
         \o <<part[n].col, " ", part[n].op, " ">> \o PyStr(part[n].val)

\* re.match(r'(\w+)\s*(>=|<=|!=|>|<|=)\s*(.+)') on one part, and the value
\* of group 3: [matched, cond].  A qualified column does not match, since
\* the '.' stands where the operator is looked for; group 3 takes the rest
\* of the part, and a rest that is more than an INT literal fails int() and
\* stays the str it is
MatchPart(part) ==
    IF part[1].qual # "" THEN [matched |-> FALSE, cond |-> Null]
    ELSE [matched |-> TRUE,
          cond |-> [col |-> part[1].col, op |-> part[1].op,
                    val |-> IF Len(part) = 1 THEN part[1].val
                            ELSE StrV(PyStr(part[1].val) \o RestText(part, Len(part)))]]

\* SQLParser._parse_where on the text: the conditions of the parts that
\* match, in order (ParseWhere then stores them by column)
RECURSIVE WhereConds(_, _)
WhereConds(parts, n) ==
    IF n = 0 THEN <<>>
    ELSE IF MatchPart(parts[n]).matched
    THEN Append(WhereConds(parts, n - 1), MatchPart(parts[n]).cond)
    ELSE WhereConds(parts, n - 1)

ParseWhereText(text) ==
    LET parts == SplitAnd(text, Len(text)) IN WhereConds(parts, Len(parts))

(***************************************************************************)
(* SQLParser._parse_columns.  A column definition is the sequence of its   *)
(* blank-separated tokens; a token is a word followed by the characters    *)
(* that come after it up to the next blank, as in VARCHAR (2).  The tails  *)
(* of the model are empty or start with a parenthesis.                     *)
(***************************************************************************)
Token(word, tail) == [word |-> word, tail |-> tail]

Word(word) == Token(word, <<>>)

\* length_str.rstrip(')')
RECURSIVE RStripParen(_)
RStripParen(chars) ==
    IF chars # <<>> /\ chars[Len(chars)] = ")"
    THEN RStripParen(SubSeq(chars, 1, Len(chars) - 1))
    ELSE chars

\* one part of the definition: [raised, skipped, column]
ParseColumn(tokens) ==
    LET blank == Column("", "", Null, FALSE, FALSE, TRUE)
        words == [j \in 1..Len(tokens) |-> tokens[j].word]
        tail == tokens[2].tail
        opens == {j \in 1..Len(tail) : tail[j] = "("}
        length_str == SubSeq(tail, 2, Len(tail))
        nots == {j \in 1..Len(words) : words[j] = "NOT"}
        not_index == CHOOSE j \in nots : \A q \in nots : j <= q
        nullable == IF nots = {} THEN TRUE
                    ELSE ~(not_index + 1 <= Len(words) /\ words[not_index + 1] = "NULL")
        parsed(length) ==
            [raised |-> FALSE, skipped |-> FALSE,
             column |-> Column(tokens[1].word, tokens[2].word, length,
                               \E j \in 1..Len(words) : words[j] = "PRIMARY",
                               \E j \in 1..Len(words) : words[j] = "UNIQUE",
                               nullable)]
    IN IF Len(tokens) < 2 THEN [raised |-> FALSE, skipped |-> TRUE, column |-> blank]
       ELSE IF opens = {} THEN parsed(Null)
       ELSE IF Cardinality(opens) > 1 \/ ~StrIsInt(RStripParen(length_str))
       THEN [raised |-> TRUE, skipped |-> FALSE, column |-> blank]
       ELSE parsed(IntV(StrToInt(RStripParen(length_str))))

\* SQLParser._parse_columns: [raised, columns]
RECURSIVE ParseColumns(_)
ParseColumns(parts) ==
    IF parts = <<>> THEN [raised |-> FALSE, columns |-> <<>>]
    ELSE LET front == ParseColumns(SubSeq(parts, 1, Len(parts) - 1))
             part == ParseColumn(parts[Len(parts)])
         IN IF front.raised \/ part.raised THEN [raised |-> TRUE, columns |-> <<>>]
            ELSE IF part.skipped THEN front
            ELSE [raised |-> FALSE, columns |-> Append(front.columns, part.column)]

(***************************************************************************)
(* Table.  rows is the row store, a sequence of functions from "_row_id"   *)
(* and the column names to values; indexes maps each indexed column to     *)
(* its Index.                                                              *)
(***************************************************************************)
\* {col.name: col for col in columns}: a repeated name keeps its first
\* position and its last descriptor
RECURSIVE ColumnsDict(_)
ColumnsDict(columns) ==
    IF columns = <<>> THEN <<>>
    ELSE DSet(ColumnsDict(SubSeq(columns, 1, Len(columns) - 1)),
              columns[Len(columns)].name, columns[Len(columns)])

ColumnNames(table) == {table.columns[j].k : j \in 1..Len(table.columns)}

\* Table.__init__
NewTable(name, columns) ==
    [name |-> name,
     columns |-> ColumnsDict(columns),
     column_order |-> [j \in 1..Len(columns) |-> columns[j].name],
     rows |-> <<>>,
     next_row_id |-> 0,
     indexes |-> [c \in {columns[j].name : j \in
                           {q \in 1..Len(columns) :
                              columns[q].primary_key \/ columns[q].unique}}
                  |-> EmptyIndex]]

RECURSIVE BuildIndex(_, _, _)
BuildIndex(rows, column_name, j) ==
    IF j = 0 THEN EmptyIndex
    ELSE IndexAdd(BuildIndex(rows, column_name, j - 1),
                  IF column_name \in DOMAIN rows[j] THEN rows[j][column_name] ELSE Null,
                  rows[j]["_row_id"])

\* BuildIndex onto the entries the index already has
RECURSIVE AddEntries(_, _, _, _)
AddEntries(index, rows, column_name, j) ==
    IF j = 0 THEN index
    ELSE IndexAdd(AddEntries(index, rows, column_name, j - 1),
                  IF column_name \in DOMAIN rows[j] THEN rows[j][column_name] ELSE Null,
                  rows[j]["_row_id"])

\* CreateIndex that replays the rows also when the column is indexed already
CreateIndexReplaysAgain(table, column_name) ==
    IF column_name \notin ColumnNames(table) THEN [ok |-> FALSE, table |-> table]
    ELSE [ok |-> TRUE,
          table |-> [table EXCEPT !.indexes =
                        [c \in DOMAIN table.indexes \cup {column_name} |->
                            IF c = column_name
                            THEN AddEntries(IF c \in DOMAIN table.indexes
                                            THEN table.indexes[c] ELSE EmptyIndex,
                                            table.rows, column_name, Len(table.rows))
                            ELSE table.indexes[c]]]]

\* Table.create_index: [ok, table]
CreateIndex(table, column_name) ==
    IF column_name \notin ColumnNames(table) THEN [ok |-> FALSE, table |-> table]
    ELSE IF column_name \in DOMAIN table.indexes THEN [ok |-> TRUE, table |-> table]
    ELSE [ok |-> TRUE,
          table |-> [table EXCEPT !.indexes =
                        [c \in DOMAIN table.indexes \cup {column_name} |->
                            IF c = column_name
                            THEN BuildIndex(table.rows, column_name, Len(table.rows))
                            ELSE table.indexes[c]]]]

\* row[key] = value
RowSet(row, key, value) ==
    [c \in DOMAIN row \cup {key} |-> IF c = key THEN value ELSE row[c]]

\* InsertColumns with the duplicate lookup done on the value as supplied
RECURSIVE InsertColumnsLooksUpRaw(_, _, _, _)
InsertColumnsLooksUpRaw(table, values, j, row) ==
    IF j > Len(table.columns) THEN [error |-> OK, row |-> row]
    ELSE LET col == table.columns[j].v
             col_name == table.columns[j].k
             supplied == DGet(values, col_name, Null)
             value == IF col.primary_key /\ supplied = Null
                      THEN IntV(table.next_row_id) ELSE supplied
             verdict == Validate(col, value)
             converted == IF value # Null THEN Convert(col, value) ELSE value
         IN IF verdict # OK THEN [error |-> verdict, row |-> row]
            ELSE IF /\ value # Null
                    /\ (col.primary_key \/ col.unique)
                    /\ col_name \in DOMAIN table.indexes
                    /\ IndexLookup(table.indexes[col_name], value) # <<>>
            THEN [error |-> Msg("Duplicate value", col_name), row |-> row]
            ELSE InsertColumnsLooksUpRaw(table, values, j + 1,
                                         RowSet(row, col_name, converted))

\* Table.insert, the loop over the columns: [error, row]
RECURSIVE InsertColumns(_, _, _, _)
InsertColumns(table, values, j, row) ==
    IF j > Len(table.columns) THEN [error |-> OK, row |-> row]
    ELSE LET col == table.columns[j].v
             col_name == table.columns[j].k
             supplied == DGet(values, col_name, Null)
             value == IF col.primary_key /\ supplied = Null
                      THEN IntV(table.next_row_id) ELSE supplied
             verdict == Validate(col, value)
             converted == IF value # Null THEN Convert(col, value) ELSE value
         IN IF verdict # OK THEN [error |-> verdict, row |-> row]
            ELSE IF /\ converted # Null
                    /\ (col.primary_key \/ col.unique)
                    /\ col_name \in DOMAIN table.indexes
                    /\ IndexLookup(table.indexes[col_name], converted) # <<>>
            THEN [error |-> Msg("Duplicate value", col_name), row |-> row]
            ELSE InsertColumns(table, values, j + 1, RowSet(row, col_name, converted))

\* Insert that advances the identity counter for a rejected row too
InsertCountsRejected(table, values) ==
    LET start == [c \in {"_row_id"} |-> IntV(table.next_row_id)]
        built == InsertColumns(table, values, 1, start)
        row == built.row
    IN IF built.error # OK
       THEN [error |-> built.error,
             table |-> [table EXCEPT !.next_row_id = table.next_row_id + 1]]
       ELSE [error |-> OK,
             table |-> [table EXCEPT
                 !.indexes = [c \in DOMAIN table.indexes |->
                                 IF c \in DOMAIN row
                                 THEN IndexAdd(table.indexes[c], row[c], row["_row_id"])
                                 ELSE table.indexes[c]],
                 !.rows = Append(table.rows, row),
                 !.next_row_id = table.next_row_id + 1]]

\* Insert with the new row put in front of the row store
InsertAtFront(table, values) ==
    LET start == [c \in {"_row_id"} |-> IntV(table.next_row_id)]
        built == InsertColumns(table, values, 1, start)
        row == built.row
    IN IF built.error # OK THEN [error |-> built.error, table |-> table]
       ELSE [error |-> OK,
             table |-> [table EXCEPT
                 !.indexes = [c \in DOMAIN table.indexes |->
                                 IF c \in DOMAIN row
                                 THEN IndexAdd(table.indexes[c], row[c], row["_row_id"])
                                 ELSE table.indexes[c]],
                 !.rows = <<row>> \o table.rows,
                 !.next_row_id = table.next_row_id + 1]]

\* Table.insert: [error, table]
Insert(table, values) ==
    LET start == [c \in {"_row_id"} |-> IntV(table.next_row_id)]
        built == InsertColumns(table, values, 1, start)
        row == built.row
    IN IF built.error # OK THEN [error |-> built.error, table |-> table]
       ELSE [error |-> OK,
             table |-> [table EXCEPT
                 !.indexes = [c \in DOMAIN table.indexes |->
                                 IF c \in DOMAIN row
                                 THEN IndexAdd(table.indexes[c], row[c], row["_row_id"])
                                 ELSE table.indexes[c]],
                 !.rows = Append(table.rows, row),
                 !.next_row_id = table.next_row_id + 1]]

\* the positions j <= n whose verdict is "yes", in order
RECURSIVE Kept(_, _)
Kept(verdicts, n) ==
    IF n = 0 THEN <<>>
    ELSE IF verdicts[n] = "yes" THEN Append(Kept(verdicts, n - 1), n)
    ELSE Kept(verdicts, n - 1)

RECURSIVE Without(_, _)
Without(keys, key) ==
    IF keys = <<>> THEN <<>>
    ELSE IF keys[Len(keys)] = key THEN Without(SubSeq(keys, 1, Len(keys) - 1), key)
    ELSE Append(Without(SubSeq(keys, 1, Len(keys) - 1), key), keys[Len(keys)])

\* {k: v for k, v in row.items() if k != '_row_id'}: a row is a dict whose
\* keys are "_row_id" and then the columns in the order insert wrote them
StripRowId(table, row) ==
    LET keys == Without(DKeys(table.columns), "_row_id")
    IN [j \in 1..Len(keys) |-> [k |-> keys[j], v |-> row[keys[j]]]]

\* {col: row.get(col) for col in columns if col in self.columns}
RECURSIVE Project(_, _, _)
Project(table, row, columns) ==
    IF columns = <<>> THEN <<>>
    ELSE LET front == Project(table, row, SubSeq(columns, 1, Len(columns) - 1))
             col == columns[Len(columns)]
         IN IF col \in ColumnNames(table)
            THEN DSet(front, col, IF col \in DOMAIN row THEN row[col] ELSE Null)
            ELSE front

\* Table.select: [raised, rows]; columns = <<>> stands for None and for []
Select(table, columns, where) ==
    LET verdicts == [j \in 1..Len(table.rows) |-> SelectMatch(table.rows[j], where)]
        kept == Kept(verdicts, Len(table.rows))
    IN IF \E j \in 1..Len(table.rows) : verdicts[j] = "raise"
       THEN [raised |-> TRUE, rows |-> <<>>]
       ELSE [raised |-> FALSE,
             rows |-> [q \in 1..Len(kept) |->
                          IF columns # <<>>
                          THEN Project(table, table.rows[kept[q]], columns)
                          ELSE StripRowId(table, table.rows[kept[q]])]]

\* Table.update, "Validate new values": the first error among the SET
\* columns of one row, or OK
RECURSIVE UpdateCheck(_, _, _, _)
UpdateCheck(table, row, set_values, j) ==
    IF j > Len(set_values) THEN OK
    ELSE LET col_name == set_values[j].k
             new_val == set_values[j].v
         IN IF col_name \notin ColumnNames(table)
            THEN Msg("Unknown column", col_name)
            ELSE LET col == DGet(table.columns, col_name, Null)
                     verdict == Validate(col, new_val)
                     existing == IndexLookup(table.indexes[col_name], new_val)
                 IN IF verdict # OK THEN verdict
                    ELSE IF /\ new_val # Null
                            /\ (col.unique \/ col.primary_key)
                            /\ col_name \in DOMAIN table.indexes
                            /\ existing # <<>>
                            /\ ~ \A q \in 1..Len(existing) :
                                     PyEq(existing[q], row["_row_id"])
                    THEN Msg("Duplicate value", col_name)
                    ELSE UpdateCheck(table, row, set_values, j + 1)

\* UpdateWrite without the removal of the old index entries
UpdateWriteKeepsOldEntries(table, i, set_values) ==
    LET row == table.rows[i]
        written == [c \in DOMAIN row \cup {set_values[j].k : j \in 1..Len(set_values)} |->
                       IF DHas(set_values, c)
                       THEN LET new_val == DGet(set_values, c, Null) IN
                            IF new_val # Null
                            THEN Convert(DGet(table.columns, c, Null), new_val)
                            ELSE new_val
                       ELSE row[c]]
    IN [table EXCEPT
          !.rows[i] = written,
          !.indexes = [c \in DOMAIN table.indexes |->
                          IF DHas(set_values, c)
                          THEN IndexAdd(table.indexes[c], written[c], written["_row_id"])
                          ELSE table.indexes[c]]]

\* Table.update, "Update indexes", "Update row", "Re-add to indexes" of row i
UpdateWrite(table, i, set_values) ==
    LET row == table.rows[i]
        removed == [c \in DOMAIN table.indexes |->
                       IF DHas(set_values, c)
                       THEN IndexRemove(table.indexes[c],
                                        IF c \in DOMAIN row THEN row[c] ELSE Null,
                                        row["_row_id"])
                       ELSE table.indexes[c]]
        written == [c \in DOMAIN row \cup {set_values[j].k : j \in 1..Len(set_values)} |->
                       IF DHas(set_values, c)
                       THEN LET new_val == DGet(set_values, c, Null) IN
                            IF new_val # Null
                            THEN Convert(DGet(table.columns, c, Null), new_val)
                            ELSE new_val
                       ELSE row[c]]
    IN [table EXCEPT
          !.rows[i] = written,
          !.indexes = [c \in DOMAIN table.indexes |->
                          IF DHas(set_values, c)
                          THEN IndexAdd(removed[c], written[c], written["_row_id"])
                          ELSE removed[c]]]

\* what Table.update returns at a rejected row
Rejected(count, error, table) ==
    [count |-> 0, error |-> error, raised |-> FALSE, table |-> table]

\* UpdateRows with each SET column written as soon as it has passed its checks
RECURSIVE UpdateRowsWritesAsChecked(_, _, _, _, _)
UpdateRowsWritesAsChecked(table, set_values, where, i, count) ==
    IF i > Len(table.rows)
    THEN [count |-> count, error |-> OK, raised |-> FALSE, table |-> table]
    ELSE LET verdict == UpdateMatch(table.rows[i], where) IN
         IF verdict = "raise"
         THEN [count |-> count, error |-> OK, raised |-> TRUE, table |-> table]
         ELSE IF verdict = "no"
         THEN UpdateRowsWritesAsChecked(table, set_values, where, i + 1, count)
         ELSE LET check == UpdateCheck(table, table.rows[i], set_values, 1)
                  passed == CHOOSE n \in 0..Len(set_values) :
                      /\ UpdateCheck(table, table.rows[i], SubSeq(set_values, 1, n), 1) = OK
                      /\ n < Len(set_values) =>
                           UpdateCheck(table, table.rows[i],
                                       SubSeq(set_values, 1, n + 1), 1) # OK
              IN IF check # OK
                 THEN Rejected(count, check,
                               UpdateWrite(table, i, SubSeq(set_values, 1, passed)))
                 ELSE UpdateRowsWritesAsChecked(UpdateWrite(table, i, set_values),
                                                set_values, where, i + 1, count + 1)

\* Table.update from row i on: [count, error, raised, table]
RECURSIVE UpdateRows(_, _, _, _, _)
UpdateRows(table, set_values, where, i, count) ==
    IF i > Len(table.rows)
    THEN [count |-> count, error |-> OK, raised |-> FALSE, table |-> table]
    ELSE LET verdict == UpdateMatch(table.rows[i], where) IN
         IF verdict = "raise"
         THEN [count |-> count, error |-> OK, raised |-> TRUE, table |-> table]
         ELSE IF verdict = "no"
         THEN UpdateRows(table, set_values, where, i + 1, count)
         ELSE LET check == UpdateCheck(table, table.rows[i], set_values, 1) IN
              IF check # OK THEN Rejected(count, check, table)
              ELSE UpdateRows(UpdateWrite(table, i, set_values),
                              set_values, where, i + 1, count + 1)

Update(table, set_values, where) == UpdateRows(table, set_values, where, 1, 0)

\* DeleteRows that leaves the index entries of the removed rows
RECURSIVE DeleteRowsKeepsEntries(_, _)
DeleteRowsKeepsEntries(table, to_delete) ==
    IF to_delete = <<>> THEN table
    ELSE LET i == to_delete[Len(to_delete)] IN
         DeleteRowsKeepsEntries(
              [table EXCEPT
                 !.rows = SubSeq(table.rows, 1, i - 1)
                          \o SubSeq(table.rows, i + 1, Len(table.rows))],
              SubSeq(to_delete, 1, Len(to_delete) - 1))

\* Table.delete, "Remove from indexes and rows", last position first
RECURSIVE DeleteRows(_, _)
DeleteRows(table, to_delete) ==
    IF to_delete = <<>> THEN table
    ELSE LET i == to_delete[Len(to_delete)]
             row == table.rows[i]
         IN DeleteRows(
              [table EXCEPT
                 !.indexes = [c \in DOMAIN table.indexes |->
                                 IF c \in DOMAIN row
                                 THEN IndexRemove(table.indexes[c], row[c], row["_row_id"])
                                 ELSE table.indexes[c]],
                 !.rows = SubSeq(table.rows, 1, i - 1)
                          \o SubSeq(table.rows, i + 1, Len(table.rows))],
              SubSeq(to_delete, 1, Len(to_delete) - 1))

\* Table.delete: [raised, count, table]
Delete(table, where) ==
    LET verdicts == [j \in 1..Len(table.rows) |-> DeleteMatch(table.rows[j], where)]
        to_delete == Kept(verdicts, Len(table.rows))
    IN IF \E j \in 1..Len(table.rows) : verdicts[j] = "raise"
       THEN [raised |-> TRUE, count |-> 0, table |-> table]
       ELSE [raised |-> FALSE, count |-> Len(to_delete),
             table |-> DeleteRows(table, to_delete)]

\* Table.to_dict; indexed_columns is kept as a set
ToDict(table) ==
    [name |-> table.name,
     columns |-> [j \in 1..Len(table.column_order) |->
                     DGet(table.columns, table.column_order[j], Null)],
     rows |-> [j \in 1..Len(table.rows) |-> StripRowId(table, table.rows[j])],
     next_row_id |-> table.next_row_id,
     indexed_columns |-> DOMAIN table.indexes]

(***************************************************************************)
(* Database: tables is the dict of the tables by name, disk the snapshot   *)
(* file (NoFile until the first save).  fs is what the file system does   *)
(* with the next write: "ok", "no_open" when open(db_file, 'w') fails,     *)
(* "no_space" when the file is opened, and so truncated, and the write     *)
(* into it fails.                                                          *)
(***************************************************************************)
NoFile == [name |-> "", tables |-> <<>>, exists |-> FALSE]

\* the file after a write that failed: the beginning of a JSON text, which
\* json.load rejects
Torn == [name |-> "", tables |-> <<>>, exists |-> TRUE]

\* Database.save: the snapshot file after the call
Save(db_tables) ==
    IF fs = "no_open" THEN disk
    ELSE IF fs = "no_space" THEN Torn
    ELSE [name |-> "mydb",
          tables |-> [j \in 1..Len(db_tables) |->
                         [k |-> db_tables[j].k, v |-> ToDict(db_tables[j].v)]],
          exists |-> TRUE]

\* Table.from_dict, "Restore rows": each saved row goes through insert
RECURSIVE Reinsert(_, _, _)
Reinsert(table, rows, n) ==
    IF n = 0 THEN table
    ELSE Insert(Reinsert(table, rows, n - 1), rows[n]).table

\* RestoreIndexes that leaves the table with the indexes of its key columns
RestoreIndexesOfKeysOnly(table, indexed_columns) == table

\* Table.from_dict, "Restore indexes"
RECURSIVE RestoreIndexes(_, _)
RestoreIndexes(table, indexed_columns) ==
    IF indexed_columns = {} THEN table
    ELSE LET col_name == CHOOSE c \in indexed_columns : TRUE IN
         RestoreIndexes(IF col_name \in DOMAIN table.indexes THEN table
                        ELSE CreateIndex(table, col_name).table,
                        indexed_columns \ {col_name})

\* Table.from_dict
FromDict(data) ==
    RestoreIndexes(
        Reinsert([NewTable(data.name, data.columns) EXCEPT
                     !.next_row_id = data.next_row_id],
                 data.rows, Len(data.rows)),
        data.indexed_columns)

\* Database.load into a fresh database: the tables it ends with
Load(file) ==
    IF ~file.exists THEN <<>>
    ELSE [j \in 1..Len(file.tables) |->
             [k |-> file.tables[j].k, v |-> FromDict(file.tables[j].v)]]

\* Database.drop_table: del self.tables[name]
DDel(d, key) ==
    LET p == CHOOSE j \in 1..Len(d) : d[j].k = key
    IN SubSeq(d, 1, p - 1) \o SubSeq(d, p + 1, Len(d))

RowGet(row, key) == IF key \in DOMAIN row THEN row[key] ELSE Null

\* the keys of a stored row in dict order
RowKeys(table) == <<"_row_id">> \o Without(DKeys(table.columns), "_row_id")

\* Database.join, the first loop of a matched pair: the left row's items
RECURSIVE MergeLeft(_, _, _, _, _)
MergeLeft(left_table, keys, left_row, right_row, n) ==
    IF n = 0 THEN <<>>
    ELSE LET front == MergeLeft(left_table, keys, left_row, right_row, n - 1)
             k == keys[n]
         IN IF k = "_row_id" THEN front
            ELSE DSet(front,
                      IF k \in DOMAIN right_row THEN left_table \o "." \o k ELSE k,
                      left_row[k])

\* Database.join, the second loop of a matched pair: the right row's items
RECURSIVE MergeRight(_, _, _, _, _, _)
MergeRight(combined, right_table, keys, left_row, right_row, n) ==
    IF n = 0 THEN combined
    ELSE LET front == MergeRight(combined, right_table, keys, left_row, right_row, n - 1)
             k == keys[n]
             key == IF k \in DOMAIN left_row /\ k # "_row_id"
                    THEN right_table \o "." \o k ELSE k
         IN IF k = "_row_id" \/ DHas(front, key) THEN front
            ELSE DSet(front, key, right_row[k])

Merged(left_table, right_table, left, right, left_row, right_row) ==
    MergeRight(MergeLeft(left_table, RowKeys(left), left_row, right_row,
                         Len(RowKeys(left))),
               right_table, RowKeys(right), left_row, right_row,
               Len(RowKeys(right)))

\* Database.join, LEFT: "Include left row with NULLs for right columns"
RECURSIVE PlainLeft(_, _, _)
PlainLeft(keys, left_row, n) ==
    IF n = 0 THEN <<>>
    ELSE IF keys[n] = "_row_id" THEN PlainLeft(keys, left_row, n - 1)
    ELSE DSet(PlainLeft(keys, left_row, n - 1), keys[n], left_row[keys[n]])

RECURSIVE NullRight(_, _, _)
NullRight(combined, column_order, n) ==
    IF n = 0 THEN combined
    ELSE LET front == NullRight(combined, column_order, n - 1)
         IN IF DHas(front, column_order[n]) THEN front
            ELSE DSet(front, column_order[n], Null)

Unmatched(left, right, left_row) ==
    NullRight(PlainLeft(RowKeys(left), left_row, Len(RowKeys(left))),
              right.column_order, Len(right.column_order))

\* Matches with NULL taken as equal to NULL
RECURSIVE MatchesNullEqual(_, _, _, _, _, _, _, _)
MatchesNullEqual(left_table, right_table, left, right, left_col, right_col, left_row, n) ==
    IF n = 0 THEN <<>>
    ELSE LET front == MatchesNullEqual(left_table, right_table, left, right,
                                       left_col, right_col, left_row, n - 1)
             left_val == RowGet(left_row, left_col)
             right_val == RowGet(right.rows[n], right_col)
         IN IF PyEq(left_val, right_val)
            THEN Append(front, Merged(left_table, right_table, left, right,
                                      left_row, right.rows[n]))
            ELSE front

\* the rows one left row contributes: its matches among right rows 1..n
RECURSIVE Matches(_, _, _, _, _, _, _, _)
Matches(left_table, right_table, left, right, left_col, right_col, left_row, n) ==
    IF n = 0 THEN <<>>
    ELSE LET front == Matches(left_table, right_table, left, right,
                              left_col, right_col, left_row, n - 1)
             left_val == RowGet(left_row, left_col)
             right_val == RowGet(right.rows[n], right_col)
         IN IF PyEq(left_val, right_val) /\ left_val # Null
            THEN Append(front, Merged(left_table, right_table, left, right,
                                      left_row, right.rows[n]))
            ELSE front

\* JoinRows without the rows of the unmatched left rows
RECURSIVE JoinRowsMatchedOnly(_, _, _, _, _, _, _, _)
JoinRowsMatchedOnly(left_table, right_table, left, right, left_col, right_col, join_type, n) ==
    IF n = 0 THEN <<>>
    ELSE JoinRowsMatchedOnly(left_table, right_table, left, right,
                             left_col, right_col, join_type, n - 1)
         \o Matches(left_table, right_table, left, right,
                    left_col, right_col, left.rows[n], Len(right.rows))

RECURSIVE JoinRows(_, _, _, _, _, _, _, _)
JoinRows(left_table, right_table, left, right, left_col, right_col, join_type, n) ==
    IF n = 0 THEN <<>>
    ELSE LET matched == Matches(left_table, right_table, left, right,
                                left_col, right_col, left.rows[n], Len(right.rows))
         IN JoinRows(left_table, right_table, left, right,
                     left_col, right_col, join_type, n - 1)
            \o (IF matched = <<>> /\ join_type = "LEFT"
                THEN <<Unmatched(left, right, left.rows[n])>>
                ELSE matched)

\* Database.join
Join(db_tables, left_table, right_table, left_col, right_col, join_type) ==
    IF ~DHas(db_tables, left_table) \/ ~DHas(db_tables, right_table) THEN <<>>
    ELSE IF join_type \notin {"INNER", "LEFT"} THEN <<>>
    ELSE LET left == DGet(db_tables, left_table, Null)
             right == DGet(db_tables, right_table, Null)
         IN JoinRows(left_table, right_table, left, right,
                     left_col, right_col, join_type, Len(left.rows))

\* RDBMS.execute, SELECT_JOIN, "Apply WHERE filter if present"
JoinMatch(row, where) ==
    FirstFailure([j \in 1..Len(where) |->
        IF ~DHas(row, where[j].k) THEN "no"
        ELSE JoinCond(DGet(row, where[j].k, Null), where[j].v.op, where[j].v.val)])

\* RDBMS.execute, SELECT_JOIN, "Project columns if specified"
RECURSIVE JoinProject(_, _)
JoinProject(row, columns) ==
    IF columns = <<>> THEN <<>>
    ELSE DSet(JoinProject(row, SubSeq(columns, 1, Len(columns) - 1)),
              columns[Len(columns)], DGet(row, columns[Len(columns)], Null))

(***************************************************************************)
(* RDBMS.execute.  stmt is the parsed command of the last call, result     *)
(* the (success, payload) it returned: msg for a text payload, count for   *)
(* the number in it, rows for a list payload.  insLog is a history         *)
(* variable: per table, the rows its inserts supplied since its creation,  *)
(* kept while no UPDATE or DELETE has run on the table.  result.raised     *)
(* tells that the call ended with an exception instead of a pair.          *)
(***************************************************************************)
Parsed(command, table) ==
    [command |-> command, table |-> table, columns |-> <<>>, values |-> <<>>,
     conds |-> <<>>, set |-> <<>>, right_table |-> "", left_col |-> "",
     right_col |-> "", join_type |-> ""]

Success(msg, count, rows) ==
    [ok |-> TRUE, msg |-> msg, count |-> count, rows |-> rows, raised |-> FALSE]

Failure(msg) ==
    [ok |-> FALSE, msg |-> msg, count |-> 0, rows |-> <<>>, raised |-> FALSE]

\* an exception that leaves execute: nothing is returned
Uncaught(exception) == [Failure(Msg(exception, "")) EXCEPT !.raised = TRUE]

\* "except Exception as e: return False, ..."
Caught == Failure(Msg("Error executing command", ""))

NoTable(name) == Failure(Msg("Table does not exist", name))

Dirty == [clean |-> FALSE, log |-> <<>>]

LogSet(log, name, entry) ==
    [n \in DOMAIN log \cup {name} |-> IF n = name THEN entry ELSE log[n]]

\* the row an INSERT supplies: each column's value converted to the column
\* type, the identity counter for an omitted primary key, NULL otherwise
Supplied(table, values) ==
    LET keys == Without(DKeys(table.columns), "_row_id") IN
    [j \in 1..Len(keys) |->
        LET col == DGet(table.columns, keys[j], Null)
            given == DGet(values, keys[j], Null)
        IN [k |-> keys[j],
            v |-> IF given # Null THEN Convert(col, given)
                  ELSE IF col.primary_key THEN IntV(table.next_row_id)
                  ELSE Null]]

\* ExecCreateTable that puts the new table in the place of an existing one
ExecCreateTableReplaces(name, columns) ==
    LET created == DSet(tables, name, NewTable(name, columns)) IN
    /\ stmt' = [Parsed("CREATE_TABLE", name) EXCEPT !.columns = columns]
    /\ tables' = created
    /\ disk' = Save(created)
    /\ result' = Success(Msg("Table created successfully", name), 0, <<>>)
    /\ insLog' = LogSet(insLog, name, [clean |-> TRUE, log |-> <<>>])

ExecCreateTable(name, columns) ==
    /\ stmt' = [Parsed("CREATE_TABLE", name) EXCEPT !.columns = columns]
    /\ IF DHas(tables, name)
       THEN /\ result' = Failure(Msg("Table already exists", name))
            /\ UNCHANGED <<tables, disk, insLog>>
       ELSE LET created == DSet(tables, name, NewTable(name, columns)) IN
            /\ tables' = created
            /\ disk' = Save(created)
            /\ result' = Success(Msg("Table created successfully", name), 0, <<>>)
            /\ insLog' = LogSet(insLog, name, [clean |-> TRUE, log |-> <<>>])

\* execute on a CREATE TABLE text: parse runs before the try block
ExecCreateTableText(name, columns_def) ==
    LET parsed == ParseColumns(columns_def) IN
    IF parsed.raised
    THEN /\ stmt' = Parsed("", "")
         /\ result' = Uncaught("ValueError")
         /\ UNCHANGED <<tables, disk, insLog>>
    ELSE ExecCreateTable(name, parsed.columns)

\* execute on a text that no statement pattern matches
ExecUnparsed ==
    /\ stmt' = Parsed("", "")
    /\ result' = Failure(Msg("Failed to parse SQL command", ""))
    /\ UNCHANGED <<tables, disk, insLog>>

ExecDropTable(name) ==
    /\ stmt' = Parsed("DROP_TABLE", name)
    /\ IF DHas(tables, name)
       THEN /\ tables' = DDel(tables, name)
            /\ disk' = Save(DDel(tables, name))
            /\ result' = Success(Msg("Table dropped successfully", name), 0, <<>>)
            /\ insLog' = [n \in DOMAIN insLog \ {name} |-> insLog[n]]
       ELSE /\ result' = NoTable(name)
            /\ UNCHANGED <<tables, disk, insLog>>

ExecCreateIndex(name, column) ==
    /\ stmt' = [Parsed("CREATE_INDEX", name) EXCEPT !.columns = <<column>>]
    /\ IF ~DHas(tables, name)
       THEN /\ result' = NoTable(name)
            /\ UNCHANGED <<tables, disk, insLog>>
       ELSE LET r == CreateIndex(DGet(tables, name, Null), column) IN
            IF r.ok
            THEN /\ tables' = DSet(tables, name, r.table)
                 /\ disk' = Save(DSet(tables, name, r.table))
                 /\ result' = Success(Msg("Index created", column), 0, <<>>)
                 /\ UNCHANGED insLog
            ELSE /\ result' = Failure(Msg("Failed to create index", ""))
                 /\ UNCHANGED <<tables, disk, insLog>>

ExecInsert(name, columns, values) ==
    /\ stmt' = [Parsed("INSERT", name) EXCEPT !.columns = columns, !.values = values]
    /\ IF ~DHas(tables, name)
       THEN /\ result' = NoTable(name)
            /\ UNCHANGED <<tables, disk, insLog>>
       ELSE LET table == DGet(tables, name, Null)
                values_dict == ZipDict(columns, values)
                r == Insert(table, values_dict)
            IN IF r.error = OK
               THEN /\ tables' = DSet(tables, name, r.table)
                    /\ disk' = Save(DSet(tables, name, r.table))
                    /\ result' = Success(Msg("row inserted", ""), 1, <<>>)
                    /\ insLog' = IF insLog[name].clean
                                 THEN [insLog EXCEPT ![name].log =
                                          Append(@, Supplied(table, values_dict))]
                                 ELSE insLog
               ELSE /\ tables' = DSet(tables, name, r.table)
                    /\ result' = Failure(r.error)
                    /\ UNCHANGED <<disk, insLog>>

ExecSelect(name, columns, conds) ==
    /\ stmt' = [Parsed("SELECT", name) EXCEPT !.columns = columns, !.conds = conds]
    /\ UNCHANGED <<tables, disk, insLog>>
    /\ IF ~DHas(tables, name) THEN result' = NoTable(name)
       ELSE LET r == Select(DGet(tables, name, Null), columns, ParseWhere(conds)) IN
            IF r.raised THEN result' = Caught
            ELSE result' = Success(OK, 0, r.rows)

ExecSelectJoin(left_table, right_table, left_col, right_col, join_type, columns, conds) ==
    /\ stmt' = [Parsed("SELECT_JOIN", left_table) EXCEPT
                   !.columns = columns, !.conds = conds,
                   !.right_table = right_table, !.left_col = left_col,
                   !.right_col = right_col, !.join_type = join_type]
    /\ UNCHANGED <<tables, disk, insLog>>
    /\ LET rows == Join(tables, left_table, right_table, left_col, right_col, join_type)
           where == ParseWhere(conds)
           verdicts == [j \in 1..Len(rows) |-> JoinMatch(rows[j], where)]
           kept == Kept(verdicts, Len(rows))
       IN IF \E j \in 1..Len(rows) : verdicts[j] = "raise" THEN result' = Caught
          ELSE result' = Success(OK, 0,
                  [q \in 1..Len(kept) |->
                      IF columns # <<>> THEN JoinProject(rows[kept[q]], columns)
                      ELSE rows[kept[q]]])

ExecUpdate(name, set_values, conds) ==
    /\ stmt' = [Parsed("UPDATE", name) EXCEPT !.set = set_values, !.conds = conds]
    /\ IF ~DHas(tables, name)
       THEN /\ result' = NoTable(name)
            /\ UNCHANGED <<tables, disk, insLog>>
       ELSE LET r == Update(DGet(tables, name, Null), set_values, ParseWhere(conds)) IN
            /\ tables' = DSet(tables, name, r.table)
            /\ insLog' = [insLog EXCEPT ![name] = Dirty]
            /\ IF r.raised THEN result' = Caught /\ UNCHANGED disk
               ELSE IF r.error # OK
               THEN /\ result' = [Failure(r.error) EXCEPT !.count = r.count]
                    /\ UNCHANGED disk
               ELSE /\ disk' = Save(DSet(tables, name, r.table))
                    /\ result' = Success(Msg("row(s) updated", ""), r.count, <<>>)

\* one comma-separated part of a SET clause: "col = literal", or a text
\* that re.match(r'(\w+)\s*=\s*(.+)') does not match
Assign(col, val) == [col |-> col, assigns |-> TRUE, val |-> val]

Bare(col) == [col |-> col, assigns |-> FALSE, val |-> Null]

\* SQLParser._parse_set: the parts that do not match are passed over
RECURSIVE ParseSet(_)
ParseSet(parts) ==
    IF parts = <<>> THEN <<>>
    ELSE LET front == ParseSet(SubSeq(parts, 1, Len(parts) - 1))
             part == parts[Len(parts)]
         IN IF part.assigns THEN DSet(front, part.col, part.val) ELSE front

\* execute on an UPDATE text
ExecUpdateText(name, set_parts, conds) == ExecUpdate(name, ParseSet(set_parts), conds)

\* execute(sql, params) with the text "INSERT INTO name (columns) VALUES
\* (?, ...)": execute takes the SQL text and nothing else, so the call
\* raises TypeError before any statement of execute runs
ExecBound(name, columns, params) ==
    /\ stmt' = [Parsed("", name) EXCEPT !.columns = columns, !.values = params]
    /\ result' = Uncaught("TypeError")
    /\ UNCHANGED <<tables, disk, insLog>>

\* ExecDelete without the snapshot write
ExecDeleteWithoutSave(name, conds) ==
    /\ stmt' = [Parsed("DELETE", name) EXCEPT !.conds = conds]
    /\ IF ~DHas(tables, name)
       THEN /\ result' = NoTable(name)
            /\ UNCHANGED <<tables, disk, insLog>>
       ELSE LET r == Delete(DGet(tables, name, Null), ParseWhere(conds)) IN
            /\ tables' = DSet(tables, name, r.table)
            /\ insLog' = [insLog EXCEPT ![name] = Dirty]
            /\ UNCHANGED disk
            /\ IF r.raised THEN result' = Caught
               ELSE result' = Success(Msg("row(s) deleted", ""), r.count, <<>>)

ExecDelete(name, conds) ==
    /\ stmt' = [Parsed("DELETE", name) EXCEPT !.conds = conds]
    /\ IF ~DHas(tables, name)
       THEN /\ result' = NoTable(name)
            /\ UNCHANGED <<tables, disk, insLog>>
       ELSE LET r == Delete(DGet(tables, name, Null), ParseWhere(conds)) IN
            /\ tables' = DSet(tables, name, r.table)
            /\ insLog' = [insLog EXCEPT ![name] = Dirty]
            /\ IF r.raised THEN result' = Caught /\ UNCHANGED disk
               ELSE /\ disk' = Save(DSet(tables, name, r.table))
                    /\ result' = Success(Msg("row(s) deleted", ""), r.count, <<>>)

\* execute on a SELECT, an UPDATE or a DELETE whose text has the WHERE clause
\* where_text
ExecSelectText(name, columns, where_text) ==
    /\ clause' = where_text
    /\ ExecSelect(name, columns, ParseWhereText(where_text))

ExecUpdateWhereText(name, set_parts, where_text) ==
    /\ clause' = where_text
    /\ ExecUpdateText(name, set_parts, ParseWhereText(where_text))

ExecDeleteText(name, where_text) ==
    /\ clause' = where_text
    /\ ExecDelete(name, ParseWhereText(where_text))

ExecShowTables ==
    /\ stmt' = Parsed("SHOW_TABLES", "")
    /\ result' = Success(OK, 0, DKeys(tables))
    /\ UNCHANGED <<tables, disk, insLog>>

\* one line of DESCRIBE; Type is the data type and, when the length is
\* neither None nor 0, the length that follows it in parentheses
DescribeLine(col) ==
    [Column |-> col.name,
     Type |-> [data_type |-> col.data_type,
               length |-> IF col.length # Null /\ col.length.i # 0
                          THEN col.length ELSE Null],
     Nullable |-> IF col.nullable THEN "YES" ELSE "NO",
     Key |-> IF col.primary_key THEN "PRI" ELSE IF col.unique THEN "UNI" ELSE ""]

\* ExecDescribe that registers the table it was asked about and did not find
ExecDescribeRegisters(name) ==
    /\ stmt' = Parsed("DESCRIBE", name)
    /\ UNCHANGED <<disk, insLog>>
    /\ IF ~DHas(tables, name)
       THEN /\ result' = NoTable(name)
            /\ tables' = DSet(tables, name, NewTable(name, <<>>))
       ELSE LET table == DGet(tables, name, Null) IN
            /\ result' = Success(OK, 0,
                   [j \in 1..Len(table.column_order) |->
                       DescribeLine(DGet(table.columns, table.column_order[j], Null))])
            /\ UNCHANGED tables

ExecDescribe(name) ==
    /\ stmt' = Parsed("DESCRIBE", name)
    /\ UNCHANGED <<tables, disk, insLog>>
    /\ IF ~DHas(tables, name) THEN result' = NoTable(name)
       ELSE LET table == DGet(tables, name, Null) IN
            result' = Success(OK, 0,
                [j \in 1..Len(table.column_order) |->
                    DescribeLine(DGet(table.columns, table.column_order[j], Null))])

\* RDBMS.__init__ on the data directory of this database: a fresh Database
\* that loads the snapshot, while the identity counters it restores stay
\* within MaxInserts
Restart ==
    /\ \A j \in 1..Len(disk.tables) :
           disk.tables[j].v.next_row_id + Len(disk.tables[j].v.rows) <= MaxInserts
    /\ tables' = Load(disk)
    /\ insLog' = [n \in {disk.tables[j].k : j \in 1..Len(disk.tables)} |-> Dirty]
    /\ stmt' = Parsed("", "")
    /\ result' = Success(OK, 0, <<>>)
    /\ UNCHANGED <<disk, fs, clause>>

(***************************************************************************)
(* The statements the model runs.                                          *)
(***************************************************************************)
TableNames == {"t"}

\* CREATE TABLE t (id INT PRIMARY KEY, age INT)
SchemaA == <<<<Word("id"), Word("INT"), Word("PRIMARY"), Word("KEY")>>,
             <<Word("age"), Word("INT")>>>>

\* the literals an INSERT supplies for a column
Candidates(column) ==
    CASE column = "id" -> {StrV(<<"1">>), IntV(2)}
      [] column = "age" -> {IntV(1), IntV(2)}
      [] column = "email" -> {StrV(<<"a">>), StrV(<<"a", "b", "c">>)}
      [] column = "_row_id" -> {IntV(0), IntV(1)}
      [] column = "name" -> {StrV(<<"a">>)}
      [] column = "nick" -> {StrV(<<"a", "b">>), StrV(<<"a", "b", "c">>)}
      [] OTHER -> {}

RECURSIVE Pick(_, _, _)
Pick(seq, mask, n) ==
    IF n = 0 THEN <<>>
    ELSE IF mask[n] THEN Append(Pick(seq, mask, n - 1), seq[n])
    ELSE Pick(seq, mask, n - 1)

\* INSERT INTO t (some columns of the table) VALUES (a literal for each)
InsertInputs(column_order) ==
    LET n == Len(column_order) IN
    {[columns |-> Pick(column_order, mask, n), values |-> Pick(vals, mask, n)] :
        mask \in [1..n -> BOOLEAN],
        vals \in {f \in [1..n -> UNION {Candidates(column_order[j]) : j \in 1..n}] :
                     \A j \in 1..n : f[j] \in Candidates(column_order[j])}}

C(col, op, val) == [col |-> col, op |-> op, val |-> val]

WIdIs2 == <<C("id", "=", IntV(2))>>

WAgeGeNull == <<C("age", ">=", Null)>>

WAgeGt0 == <<C("age", ">", IntV(0))>>

SelectInputs ==
    {[columns |-> <<>>, conds |-> w] :
        w \in {<<>>, (<<C("age", ">", IntV(1)), C("age", "<", IntV(3))>>), WAgeGeNull, WAgeGt0,
                (<<C("id", ">", StrV(<<"a">>))>>)}}

Set1(col, val) == <<[k |-> col, v |-> val]>>

(***************************************************************************)
(* The state after RDBMS(): no snapshot file, no table.                    *)
(***************************************************************************)
Init ==
    /\ fs = "ok"
    /\ clause = <<>>
    /\ tables = <<>>
    /\ disk = NoFile
    /\ stmt = Parsed("", "")
    /\ result = Success(OK, 0, <<>>)
    /\ insLog = [n \in {} |-> Dirty]

CreateTable ==
    /\ \E name \in TableNames, columns_def \in ({SchemaA, (<<<<Word("email"), Token("VARCHAR",
            <<"(", "2", ")">>), Word("UNIQUE")>>, <<Word("id"), Word("INT"), Word("PRIMARY"),
            Word("KEY")>>>>), (<<<<Word("email"), Token("VARCHAR", <<"(", "x", ")">>),
            Word("UNIQUE")>>, <<Word("id"), Word("INT"), Word("PRIMARY"), Word("KEY")>>>>)}) :
           ExecCreateTableText(name, columns_def)
    /\ UNCHANGED <<fs, clause>>

Unparsed == ExecUnparsed /\ UNCHANGED <<fs, clause>>

DropTable ==
    /\ \E name \in TableNames : ExecDropTable(name)
    /\ UNCHANGED <<fs, clause>>

CreateIndexStmt ==
    /\ \E name \in TableNames, column \in ({"age", "zz"}) : ExecCreateIndex(name, column)
    /\ UNCHANGED <<fs, clause>>

InsertStmt ==
    \E name \in TableNames :
        /\ DHas(tables, name)
        /\ DGet(tables, name, Null).next_row_id < MaxInserts
        /\ Len(DGet(tables, name, Null).rows) < MaxRows
        /\ \E input \in InsertInputs(DGet(tables, name, Null).column_order) :
               ExecInsert(name, input.columns, input.values)
        /\ UNCHANGED <<fs, clause>>

SelectStmt ==
    /\ \E name \in TableNames, input \in SelectInputs :
           ExecSelect(name, input.columns, input.conds)
    /\ UNCHANGED <<fs, clause>>

SelectJoinStmt ==
    /\ \E input \in ({[left |-> "t", right |-> "t", join_type |-> "LEFT",
            conds |-> w] : w \in {WAgeGeNull, WAgeGt0}} \cup {[left |-> "t", right |-> "t",
            join_type |-> "INNER", conds |-> <<>>], [left |-> "t", right |-> "u",
            join_type |-> "INNER", conds |-> <<>>], [left |-> "u", right |-> "t",
            join_type |-> "LEFT", conds |-> <<>>]}) :
           ExecSelectJoin(input.left, input.right, "id", "age", input.join_type,
                          <<>>, input.conds)
    /\ UNCHANGED <<fs, clause>>

UpdateStmt ==
    /\ \E name \in TableNames, input \in ({[set |-> Set1("id", StrV(<<"1">>)),
            conds |-> WIdIs2], [set |-> Set1("id", Null), conds |-> WIdIs2],
            [set |-> Set1("age", IntV(2)) \o Set1("id", IntV(1)), conds |-> <<>>],
            [set |-> Set1("age", IntV(2)), conds |-> WAgeGeNull], [set |-> Set1("age", IntV(2)),
            conds |-> WAgeGt0]}) :
           ExecUpdate(name, input.set, input.conds)
    /\ UNCHANGED <<fs, clause>>

DeleteStmt ==
    /\ \E name \in TableNames, conds \in ({<<>>, WIdIs2, WAgeGeNull,
            WAgeGt0}) : ExecDelete(name, conds)
    /\ UNCHANGED <<fs, clause>>

Next ==
    \/ CreateTable
    \/ DropTable
    \/ CreateIndexStmt
    \/ InsertStmt
    \/ SelectStmt
    \/ SelectJoinStmt
    \/ UpdateStmt
    \/ DeleteStmt
    \/ Restart
    \/ Unparsed

Spec == Init /\ [][Next]_vars

(***************************************************************************)
(* Database.join on two tables: the database holds a and b, each filled by *)
(* up to MaxJoinRows inserts, and the statements are joins of the two.     *)
(***************************************************************************)

Runs(inserts) == UNION {[1..m -> inserts] : m \in 0..MaxJoinRows}

\* the table after CREATE TABLE and the inserts, the rejected ones included
Filled(name, columns_def, inserts) ==
    Reinsert(NewTable(name, ParseColumns(columns_def).columns), inserts, Len(inserts))

InitJoin ==
    \E run_a \in Runs(({<<[k |-> "id", v |-> IntV(i)], [k |-> "name",
            v |-> StrV(<<"x">>)]>> : i \in 1..MaxJoinRows})), run_b \in Runs(({<<[k |-> "a_id",
            v |-> x]>> : x \in {Null} \cup {IntV(i) : i \in 1..MaxJoinRows}})) :
        /\ fs = "ok"
        /\ clause = <<>>
        /\ tables = <<[k |-> "a", v |-> Filled("a", (<<<<Word("id"), Word("INT"),
                Word("PRIMARY"), Word("KEY")>>, <<Word("name"), Token("VARCHAR", <<"(", "2",
                ")">>)>>>>), run_a)],
                      [k |-> "b", v |-> Filled("b", (<<<<Word("id"), Word("INT"),
                              Word("PRIMARY"), Word("KEY")>>, <<Word("a_id"), Word("INT")>>>>),
                              run_b)]>>
        /\ disk = Save(tables)
        /\ stmt = Parsed("", "")
        /\ result = Success(OK, 0, <<>>)
        /\ insLog = [n \in {"a", "b"} |-> Dirty]

SelectJoinTables ==
    /\ \E pair \in ({[left |-> "a", right |-> "b", left_col |-> "id", right_col |-> "a_id"],
            [left |-> "b", right |-> "a", left_col |-> "a_id", right_col |-> "id"],
            [left |-> "b", right |-> "b", left_col |-> "a_id", right_col |-> "a_id"],
            [left |-> "a", right |-> "a", left_col |-> "id", right_col |-> "id"]}),
            join_type \in {"INNER", "LEFT"} :
           ExecSelectJoin(pair.left, pair.right, pair.left_col, pair.right_col,
                          join_type, <<>>, <<>>)
    /\ UNCHANGED <<fs, clause>>

NextJoin == SelectJoinTables

SpecJoin == InitJoin /\ [][NextJoin]_vars

(***************************************************************************)
(* The statements at the edges of the grammar: a schema that declares a    *)
(* column named _row_id, VARCHAR(0), projection lists, SET clauses with    *)
(* no assignment or an unknown column, SHOW TABLES, DESCRIBE, and a call   *)
(* of execute with parameters.                                             *)
(***************************************************************************)
SchemaRowId == <<<<Word("_row_id"), Word("INT")>>,
                 <<Word("id"), Word("INT"), Word("PRIMARY"), Word("KEY")>>>>

EdgeCreateTable ==
    /\ \E name \in TableNames, columns_def \in ({SchemaA, SchemaRowId, (<<<<Word("id"),
            Word("INT"), Word("PRIMARY"), Word("KEY")>>, <<Word("name"), Token("VARCHAR", <<"(",
            "0", ")">>)>>, <<Word("nick"), Token("VARCHAR", <<"(", "2", ")">>)>>>>)}) :
           ExecCreateTableText(name, columns_def)
    /\ UNCHANGED <<fs, clause>>

EdgeSelect ==
    /\ \E name \in TableNames, input \in ({[columns |-> columns,
            conds |-> <<>>] : columns \in {<<>>, <<"_row_id", "id">>, <<"zz", "age",
            "id">>}} \cup {[columns |-> <<"nick", "id">>, conds |-> WIdIs2]}) :
           ExecSelect(name, input.columns, input.conds)
    /\ UNCHANGED <<fs, clause>>

EdgeJoin ==
    /\ \E name \in TableNames, columns \in ({<<>>, <<"_row_id", "t.id">>}) :
           ExecSelectJoin(name, name, "id", "id", "INNER", columns, <<>>)
    /\ UNCHANGED <<fs, clause>>

EdgeUpdate ==
    /\ \E name \in TableNames, input \in ({[set |-> set,
            conds |-> w] : set \in {<<Bare("age")>>, <<Assign("zz", IntV(1))>>}, w \in {<<>>,
            WIdIs2}} \cup {[set |-> <<Assign(col, StrV(<<"a", "b", "c">>))>>,
            conds |-> <<>>] : col \in {"name", "nick"}}) :
           ExecUpdateText(name, input.set, input.conds)
    /\ UNCHANGED <<fs, clause>>

ShowTablesStmt == ExecShowTables /\ UNCHANGED <<fs, clause>>

DescribeStmt ==
    /\ \E name \in TableNames \cup {"zz"} : ExecDescribe(name)
    /\ UNCHANGED <<fs, clause>>

BoundStmt ==
    /\ \E name \in TableNames :
           ExecBound(name, <<"id", "nick">>, <<IntV(1), (StrV(<<"'", ";", " ", "D", "R", "O",
                   "P", " ", "T", "A", "B", "L", "E", " ", "t">>))>>)
    /\ UNCHANGED <<fs, clause>>

NextEdge ==
    \/ EdgeCreateTable
    \/ DropTable
    \/ InsertStmt
    \/ EdgeSelect
    \/ EdgeJoin
    \/ EdgeUpdate
    \/ DeleteStmt
    \/ ShowTablesStmt
    \/ DescribeStmt
    \/ BoundStmt

SpecEdge == Init /\ [][NextEdge]_vars

(***************************************************************************)
(* Statements whose text the parser reads in its own way: a column list    *)
(* that repeats a name, a fraction for an INT column, WHERE clauses with   *)
(* a lowercase and, with table-qualified columns, and with the name of     *)
(* the row identity.                                                       *)
(***************************************************************************)

\* id = 1 AND age = 1
WUpper == <<Condition("", "", "id", "=", IntV(1)),
            Condition("AND", "", "age", "=", IntV(1))>>

\* id = 1 and age = 1
WLower == <<Condition("", "", "id", "=", IntV(1)),
            Condition("and", "", "age", "=", IntV(1))>>

\* t.id = 1
WQualified == <<Condition("", "t", "id", "=", IntV(1))>>

WhereTexts == {WUpper, WLower, WQualified, (<<Condition("", "", "id", "=", IntV(1)),
        Condition("AND", "t", "age", "=", IntV(2))>>), (<<Condition("", "", "_row_id", "=",
        IntV(0))>>)}

TextCreateTable ==
    /\ \E name \in TableNames, columns_def \in ({SchemaA, (<<<<Word("id"), Word("INT"),
            Word("PRIMARY"), Word("KEY")>>, <<Word("id"), Token("VARCHAR", <<"(", "2", ")">>)>>,
            <<Word("age"), Word("INT")>>>>)}) :
           ExecCreateTableText(name, columns_def)
    /\ UNCHANGED <<fs, clause>>

\* INSERT INTO t (id, age) VALUES (2, 3.7)
InsertFraction ==
    \E name \in TableNames :
        /\ DHas(tables, name)
        /\ DGet(tables, name, Null).next_row_id < MaxInserts
        /\ Len(DGet(tables, name, Null).rows) < MaxRows
        /\ ExecInsert(name, <<"id", "age">>, <<IntV(2), FloatV(37)>>)
        /\ UNCHANGED <<fs, clause>>

TextSelect ==
    /\ \E name \in TableNames, where_text \in WhereTexts :
           ExecSelectText(name, <<>>, where_text)
    /\ UNCHANGED fs

TextUpdate ==
    /\ \E name \in TableNames, set_parts \in ({<<Assign("age", IntV(2))>>, <<Assign("age",
            FloatV(37))>>}),
          where_text \in {WUpper, WLower, WQualified} :
           ExecUpdateWhereText(name, set_parts, where_text)
    /\ UNCHANGED fs

TextDelete ==
    /\ \E name \in TableNames, where_text \in WhereTexts :
           ExecDeleteText(name, where_text)
    /\ UNCHANGED fs

\* SELECT * FROM t INNER JOIN t ON t._row_id = t.age
IdentityJoin ==
    /\ \E name \in TableNames :
           ExecSelectJoin(name, name, "_row_id", "age", "INNER", <<>>, <<>>)
    /\ UNCHANGED <<fs, clause>>

NextText ==
    \/ TextCreateTable
    \/ InsertStmt
    \/ InsertFraction
    \/ TextSelect
    \/ TextUpdate
    \/ TextDelete
    \/ IdentityJoin

SpecText == Init /\ [][NextText]_vars

(***************************************************************************)
(* Statements on a file system whose writes can fail.                      *)
(***************************************************************************)

\* the environment: the data directory goes away or comes back, the disk
\* fills up or is freed
FsChange ==
    /\ \E state \in ({"ok", "no_open", "no_space"}) \ {fs} : fs' = state
    /\ UNCHANGED <<tables, disk, stmt, result, insLog, clause>>

\* CREATE TABLE t (id INT PRIMARY KEY, age INT)
CreateTableA ==
    /\ \E name \in TableNames : ExecCreateTableText(name, SchemaA)
    /\ UNCHANGED <<fs, clause>>

\* INSERT INTO t (id) VALUES (1) and VALUES (2)
InsertId ==
    \E name \in TableNames :
        /\ DHas(tables, name)
        /\ DGet(tables, name, Null).next_row_id < MaxInserts
        /\ Len(DGet(tables, name, Null).rows) < MaxRows
        /\ \E id \in {IntV(1), IntV(2)} : ExecInsert(name, <<"id">>, <<id>>)
        /\ UNCHANGED <<fs, clause>>

\* DELETE FROM t WHERE id = 2
DeleteId2 ==
    /\ \E name \in TableNames : ExecDelete(name, WIdIs2)
    /\ UNCHANGED <<fs, clause>>

NextWriteFail ==
    \/ FsChange
    \/ CreateTableA
    \/ DropTable
    \/ InsertId
    \/ DeleteId2
    \/ Restart

SpecWriteFail == Init /\ [][NextWriteFail]_vars

(***************************************************************************)
(* Properties.                                                             *)
(***************************************************************************)
TableOf(db_tables, name) == DGet(db_tables, name, Null)

Existing == {tables[j].v : j \in 1..Len(tables)}

KeyColumns(table) ==
    {table.columns[j].k : j \in {q \in 1..Len(table.columns) :
        table.columns[q].v.primary_key \/ table.columns[q].v.unique}}

\* a value that files under the key of an index bucket
ValueOfKey(key) == IF key.t = "num" THEN FloatV(key.i) ELSE key

\* the values to look up: those held by rows, those of the buckets, and some others
Probes(table, c) ==
    {RowGet(table.rows[j], c) : j \in 1..Len(table.rows)}
    \cup {ValueOfKey(key) : key \in DOMAIN table.indexes[c]}
    \cup {Null, IntV(1), IntV(2), StrV(<<"1">>), StrV(<<"a">>)}

LookupExact(table, c, v) ==
    LET ids == IndexLookup(table.indexes[c], v) IN
    /\ {ids[k] : k \in 1..Len(ids)} =
           {table.rows[j]["_row_id"] : j \in
               {q \in 1..Len(table.rows) : PyEq(RowGet(table.rows[q], c), v)}}
    /\ \A k1, k2 \in 1..Len(ids) : ids[k1] = ids[k2] => k1 = k2

IndexesExact(table) ==
    \A c \in DOMAIN table.indexes : \A v \in Probes(table, c) : LookupExact(table, c, v)

\* C1: after any sequence of insert, update, delete and createIndex, lookup(v)
\* on every indexed column returns exactly the identities of the rows that
\* hold v in that column: none missing, none stale, none listed twice.
C1_IndexConsistent == \A table \in Existing : IndexesExact(table)

\* an UPDATE has left two rows of an explicitly indexed, non-unique column
\* in one bucket
C1_Witness ==
    /\ stmt.command = "UPDATE"
    /\ result.ok
    /\ result.count = 2
    /\ \E table \in Existing :
           /\ "age" \in DOMAIN table.indexes
           /\ Len(IndexLookup(table.indexes["age"], IntV(2))) = 2

\* C2: no two rows of a table hold the same non-NULL value in a PRIMARY KEY
\* or UNIQUE column.
C2_KeysUnique ==
    \A table \in Existing : \A c \in KeyColumns(table) :
        \A p, q \in 1..Len(table.rows) :
            (/\ p # q
             /\ table.rows[p][c] # Null
             /\ PyEq(table.rows[p][c], table.rows[q][c])) => FALSE

\* C4: no stored row holds NULL in a PRIMARY KEY column.
C4_PrimaryKeyNotNull ==
    \A table \in Existing : \A j \in 1..Len(table.columns) :
        table.columns[j].v.primary_key =>
            \A p \in 1..Len(table.rows) : table.rows[p][table.columns[j].k] # Null

\* the value insert checks for column j: the supplied one, or the identity
\* counter for a primary key that was not supplied
InsertValue(table, values, j) ==
    LET given == DGet(values, table.columns[j].k, Null) IN
    IF table.columns[j].v.primary_key /\ given = Null
    THEN IntV(table.next_row_id) ELSE given

\* column j is a key column for which the INSERT carries a valid non-NULL
\* value whose conversion an existing row holds
Collides(table, values, j) ==
    LET col == table.columns[j].v
        v == InsertValue(table, values, j)
    IN /\ col.primary_key \/ col.unique
       /\ v # Null
       /\ Validate(col, v) = OK
       /\ \E p \in 1..Len(table.rows) :
              PyEq(table.rows[p][table.columns[j].k], Convert(col, v))

Colliding(table, values) ==
    {j \in 1..Len(table.columns) : Collides(table, values, j)}

Least(S) == CHOOSE j \in S : \A q \in S : j <= q

\* the INSERT leaves NULL in a UNIQUE nullable column and is not told that
\* the column holds a duplicate
NullIsNoDuplicate(table, values) ==
    \A j \in 1..Len(table.columns) :
        (/\ table.columns[j].v.unique
         /\ table.columns[j].v.nullable
         /\ ~table.columns[j].v.primary_key
         /\ DGet(values, table.columns[j].k, Null) = Null)
        => result'.msg # Msg("Duplicate value", table.columns[j].k)

InsertStep(name) ==
    /\ stmt'.command = "INSERT"
    /\ stmt'.table = name
    /\ DHas(tables, name)

\* C3 as stated: an INSERT whose converted value on a PRIMARY KEY or UNIQUE
\* column is non-NULL and equals the value an existing row holds there is
\* rejected with a duplicate-value error and the row count is unchanged; a
\* NULL in a UNIQUE nullable column is never rejected as a duplicate.
C3_DuplicateRejectedAsDuplicate ==
    [][\A name \in TableNames : InsertStep(name) =>
          LET table == TableOf(tables, name)
              values == ZipDict(stmt'.columns, stmt'.values)
          IN /\ Colliding(table, values) # {} =>
                    /\ ~result'.ok
                    /\ result'.msg.kind = "Duplicate value"
                    /\ Len(TableOf(tables', name).rows) = Len(table.rows)
             /\ NullIsNoDuplicate(table, values)]_vars

\* C3 amended: such an INSERT is rejected and the row count is unchanged; the
\* error is the duplicate-value error unless a column earlier in schema order
\* than the first duplicate fails validation, and then it is that column's
\* validation error; a NULL in a UNIQUE nullable column is never rejected as
\* a duplicate.
C3_DuplicateRejected ==
    [][\A name \in TableNames : InsertStep(name) =>
          LET table == TableOf(tables, name)
              values == ZipDict(stmt'.columns, stmt'.values)
              invalid == {q \in 1..Len(table.columns) :
                             Validate(table.columns[q].v,
                                      InsertValue(table, values, q)) # OK}
          IN /\ Colliding(table, values) # {} =>
                    LET first == Least(Colliding(table, values))
                        before == {q \in invalid : q < first}
                    IN /\ ~result'.ok
                       /\ Len(TableOf(tables', name).rows) = Len(table.rows)
                       /\ before = {} => result'.msg.kind = "Duplicate value"
                       /\ before # {} =>
                            result'.msg =
                                Validate(table.columns[Least(before)].v,
                                         InsertValue(table, values, Least(before)))
             /\ NullIsNoDuplicate(table, values)]_vars

\* an INSERT that leaves email NULL, into a table where a row already has a
\* NULL email, was rejected for its duplicate id and not for the email
C3_Witness ==
    /\ stmt.command = "INSERT"
    /\ ~result.ok
    /\ result.msg = Msg("Duplicate value", "id")
    /\ DGet(ZipDict(stmt.columns, stmt.values), "email", Null) = Null
    /\ \E table \in Existing :
           /\ "email" \in KeyColumns(table)
           /\ \E p \in 1..Len(table.rows) : table.rows[p]["email"] = Null

\* what a condition means: = and != by value equality, the ordered
\* operators on two comparable non-NULL values
Holds(row_val, op, val) ==
    CASE op = "=" -> PyEq(row_val, val)
      [] op = "!=" -> ~PyEq(row_val, val)
      [] OTHER ->
           /\ row_val # Null
           /\ val # Null
           /\ Comparable(row_val, val)
           /\ CASE op = ">" -> PyLess(val, row_val)
                [] op = "<" -> PyLess(row_val, val)
                [] op = ">=" -> ~PyLess(row_val, val)
                [] OTHER -> ~PyLess(val, row_val)

SatisfiesAll(row, conds) ==
    \A k \in 1..Len(conds) :
        /\ conds[k].col \in DOMAIN row
        /\ Holds(row[conds[k].col], conds[k].op, conds[k].val)

\* C5: a SELECT keeps a row if and only if the row satisfies every one of
\* the conditions of its WHERE clause, also when several conditions name the
\* same column; without a WHERE clause every row is kept.
C5_Conjunction ==
    (/\ stmt.command = "SELECT"
     /\ DHas(tables, stmt.table)
     /\ result.ok
     /\ stmt.columns = <<>>)
    => LET table == TableOf(tables, stmt.table)
           kept == Kept([j \in 1..Len(table.rows) |->
                            IF SatisfiesAll(table.rows[j], stmt.conds)
                            THEN "yes" ELSE "no"],
                        Len(table.rows))
       IN result.rows = [q \in 1..Len(kept) |-> StripRowId(table, table.rows[kept[q]])]

OrderedOps == {">", "<", ">=", "<="}

\* some ordered condition of the WHERE has a NULL literal or meets a NULL in
\* the stored row
NullCompared(row, where) ==
    \E j \in 1..Len(where) :
        /\ where[j].v.op \in OrderedOps
        /\ \/ where[j].v.val = Null
           \/ where[j].k \in DOMAIN row /\ row[where[j].k] = Null

\* the same for a row of a join
NullComparedJoined(row, where) ==
    \E j \in 1..Len(where) :
        /\ where[j].v.op \in OrderedOps
        /\ \/ where[j].v.val = Null
           \/ DHas(row, where[j].k) /\ DGet(row, where[j].k, Null) = Null

\* C6: for >, <, >= and <=, in select, update, delete and the filter of a
\* join alike, a condition whose row value is NULL or whose literal is NULL
\* never matches the row: the row is not returned, not updated, not deleted.
C6_NullNeverOrdered ==
    [][\A name \in TableNames : (stmt'.table = name /\ DHas(tables, name)) =>
          LET table == TableOf(tables, name)
              after == TableOf(tables', name)
              where == ParseWhere(stmt'.conds)
              joined == Join(tables, name, stmt'.right_table, stmt'.left_col,
                             stmt'.right_col, stmt'.join_type)
          IN /\ (stmt'.command = "SELECT" /\ stmt'.columns = <<>>) =>
                    \A q \in 1..Len(result'.rows) : \E j \in 1..Len(table.rows) :
                        /\ ~NullCompared(table.rows[j], where)
                        /\ result'.rows[q] = StripRowId(table, table.rows[j])
             /\ stmt'.command = "UPDATE" =>
                    \A j \in 1..Len(table.rows) :
                        NullCompared(table.rows[j], where) =>
                            after.rows[j] = table.rows[j]
             /\ stmt'.command = "DELETE" =>
                    \A j \in 1..Len(table.rows) :
                        NullCompared(table.rows[j], where) =>
                            \E p \in 1..Len(after.rows) : after.rows[p] = table.rows[j]
             /\ (stmt'.command = "SELECT_JOIN" /\ stmt'.columns = <<>>) =>
                    \A q \in 1..Len(result'.rows) : \E j \in 1..Len(joined) :
                        /\ ~NullComparedJoined(joined[j], where)
                        /\ result'.rows[q] = joined[j]]_vars

\* UPDATE ... WHERE age > 0 has updated one row and left a row whose age is
\* NULL as it was
C6_Witness ==
    /\ stmt.command = "UPDATE"
    /\ stmt.conds = WAgeGt0
    /\ result.ok
    /\ result.count = 1
    /\ \E table \in Existing :
           /\ Len(table.rows) = 2
           /\ \E p \in 1..2 : RowGet(table.rows[p], "age") = Null

UpdateStep(name) ==
    /\ stmt'.command = "UPDATE"
    /\ stmt'.table = name
    /\ DHas(tables, name)

\* the conditions of a parsed WHERE
CondsOf(where) ==
    [j \in 1..Len(where) |-> C(where[j].k, where[j].v.op, where[j].v.val)]

\* the row with every SET column written
Written(table, row, set_values) ==
    [c \in DOMAIN row |->
        IF DHas(set_values, c)
        THEN IF DGet(set_values, c, Null) = Null THEN Null
             ELSE Convert(DGet(table.columns, c, Null), DGet(set_values, c, Null))
        ELSE row[c]]

\* the rows before position r that satisfy the WHERE carry all their new
\* values, every other row is as it was
UpdatedBefore(old, new, set_values, where, r) ==
    \A j \in 1..Len(old.rows) :
        new.rows[j] =
            IF j < r /\ SatisfiesAll(old.rows[j], CondsOf(where))
            THEN Written(old, old.rows[j], set_values)
            ELSE old.rows[j]

CommittedBefore(old, where, r) ==
    Cardinality({j \in 1..(r - 1) : SatisfiesAll(old.rows[j], CondsOf(where))})

\* C8: when an UPDATE fails at a row after k >= 1 earlier matching rows were
\* committed, the statement reports the error together with the count k.
C8_PartialCountReported ==
    [][\A name \in TableNames : (UpdateStep(name) /\ ~result'.ok) =>
          LET old == TableOf(tables, name)
              new == TableOf(tables', name)
              where == ParseWhere(stmt'.conds)
              stops == {r \in 1..Len(old.rows) :
                           /\ UpdatedBefore(old, new, stmt'.set, where, r)
                           /\ CommittedBefore(old, where, r) >= 1}
          IN stops # {} =>
                \E r \in stops : result'.count = CommittedBefore(old, where, r)]_vars

\* C9: a multi-row UPDATE visits the rows in row-store order and writes each
\* row all or nothing: when a row is rejected, the matching rows before it
\* carry all their new values and the indexes reflect them, the rejected row
\* and the rows after it are as they were.
C9_RowsAllOrNothing ==
    [][\A name \in TableNames : UpdateStep(name) =>
          LET old == TableOf(tables, name)
              new == TableOf(tables', name)
              where == ParseWhere(stmt'.conds)
          IN /\ Len(new.rows) = Len(old.rows)
             /\ IndexesExact(new)
             /\ result'.ok =>
                    UpdatedBefore(old, new, stmt'.set, where, Len(old.rows) + 1)
             /\ ~result'.ok =>
                    \E r \in 1..Len(old.rows) :
                        /\ UpdatedBefore(old, new, stmt'.set, where, r)
                        /\ result'.msg.kind # "Error executing command" =>
                               SatisfiesAll(old.rows[r], CondsOf(where))]_vars

\* UPDATE t SET age = 2, id = 1 was rejected at the second row: the first row
\* carries the new values, which the snapshot does not have yet, the second
\* row is as in the snapshot
C9_Witness ==
    /\ stmt.command = "UPDATE"
    /\ Len(stmt.set) = 2
    /\ ~result.ok
    /\ result.msg = Msg("Duplicate value", "id")
    /\ \E table \in Existing :
           /\ Len(table.rows) = 2
           /\ table.rows[1]["age"] = IntV(2)
           /\ table.rows[2]["age"] # IntV(2)
           /\ disk.exists
           /\ Len(disk.tables) = 1
           /\ Len(disk.tables[1].v.rows) = 2
           /\ disk.tables[1].v.rows[1] # StripRowId(table, table.rows[1])
           /\ disk.tables[1].v.rows[2] = StripRowId(table, table.rows[2])

Mutating == {"CREATE_TABLE", "DROP_TABLE", "CREATE_INDEX", "INSERT", "UPDATE", "DELETE"}

\* the snapshot has the tables of the database, each with its schema, its
\* rows without the row identity, and its set of indexed columns
Describes(snapshot, db_tables) ==
    /\ snapshot.exists
    /\ DKeys(snapshot.tables) = DKeys(db_tables)
    /\ \A j \in 1..Len(db_tables) :
         LET saved == snapshot.tables[j].v
             table == db_tables[j].v
         IN /\ saved.name = table.name
            /\ Len(saved.columns) = Len(table.column_order)
            /\ \A q \in 1..Len(table.column_order) :
                   /\ saved.columns[q].name = table.column_order[q]
                   /\ saved.columns[q] = DGet(table.columns, table.column_order[q], Null)
            /\ Len(saved.rows) = Len(table.rows)
            /\ \A p \in 1..Len(table.rows) :
                   /\ {saved.rows[p][q].k : q \in 1..Len(saved.rows[p])}
                          = DOMAIN table.rows[p] \ {"_row_id"}
                   /\ \A q \in 1..Len(saved.rows[p]) :
                          saved.rows[p][q].v = table.rows[p][saved.rows[p][q].k]
            /\ saved.indexed_columns = DOMAIN table.indexes

\* C10: whenever execute returns success for a mutating command and the
\* snapshot write did not fail, the snapshot describes exactly the database
\* in memory: the same tables, schemas, rows and indexed-column sets.
C10_SnapshotCurrent ==
    (stmt.command \in Mutating /\ result.ok) => Describes(disk, tables)

\* a DELETE has removed one of two rows and the snapshot has the row left
C10_Witness ==
    /\ stmt.command = "DELETE"
    /\ result.ok
    /\ result.count = 1
    /\ Len(tables) = 1
    /\ Len(tables[1].v.rows) = 1
    /\ Describes(disk, tables)

\* how many rows of the table are ro, the row identity left aside
Copies(table, ro) ==
    Cardinality({j \in 1..Len(table.rows) : StripRowId(table, table.rows[j]) = ro})

\* the two databases have the same tables, with the same schemas and the
\* same multiset of rows
Equivalent(a, b) ==
    /\ {a[j].k : j \in 1..Len(a)} = {b[j].k : j \in 1..Len(b)}
    /\ \A j \in 1..Len(a) :
         LET ta == a[j].v
             tb == TableOf(b, a[j].k)
         IN /\ ta.column_order = tb.column_order
            /\ ta.columns = tb.columns
            /\ Len(ta.rows) = Len(tb.rows)
            /\ \A p \in 1..Len(ta.rows) :
                   Copies(ta, StripRowId(ta, ta.rows[p]))
                       = Copies(tb, StripRowId(ta, ta.rows[p]))

\* C11: for every reachable database, saving it and loading the snapshot
\* into a fresh database gives the same tables with the same schemas and the
\* same multiset of rows per table.
C11_SnapshotRoundTrip == Equivalent(tables, Load(Save(tables)))

\* C12: execute returns a (success, payload) pair for every input text; no
\* failure raised while parsing or dispatching a statement propagates to the
\* caller as an exception.
C12_NoExceptionEscapes == ~result.raised

\* the statement of the step names a table that the database does not have
NamesUnknownTable ==
    /\ stmt'.command \in {"DROP_TABLE", "CREATE_INDEX", "INSERT", "SELECT",
                          "SELECT_JOIN", "UPDATE", "DELETE"}
    /\ \/ ~DHas(tables, stmt'.table)
       \/ stmt'.command = "SELECT_JOIN" /\ ~DHas(tables, stmt'.right_table)

\* C13: every statement that names a table not present in the database
\* (a join on either side included) returns (false, message) and leaves the
\* database and the snapshot unchanged.
C13_UnknownTableRejected ==
    [][NamesUnknownTable =>
          /\ ~result'.ok
          /\ tables' = tables
          /\ disk' = disk]_vars

\* the last statement was a join of two tables of the database
JoinStmt ==
    /\ stmt.command = "SELECT_JOIN"
    /\ DHas(tables, stmt.table)
    /\ DHas(tables, stmt.right_table)

LeftRows == TableOf(tables, stmt.table).rows

RightRows == TableOf(tables, stmt.right_table).rows

\* left row l and right row r have equal, non-NULL join values
PairMatches(l, r) ==
    LET left_val == RowGet(LeftRows[l], stmt.left_col)
        right_val == RowGet(RightRows[r], stmt.right_col)
    IN left_val # Null /\ right_val # Null /\ PyEq(left_val, right_val)

MatchedPairs ==
    {p \in (1..Len(LeftRows)) \X (1..Len(RightRows)) : PairMatches(p[1], p[2])}

\* the left rows without a match
LoneLeft == {l \in 1..Len(LeftRows) : \A r \in 1..Len(RightRows) : ~PairMatches(l, r)}

\* the place of a matched pair in left-row-major, then right-row order
PairRank(p) ==
    Cardinality({q \in MatchedPairs : q[1] < p[1] \/ (q[1] = p[1] /\ q[2] < p[2])}) + 1

\* C14: the LEFT join has at least as many rows as the INNER join of the
\* same tables and columns, and as many exactly when every left row has a
\* matching right row.
C14_LeftAtLeastInner ==
    JoinStmt =>
        LET other == Join(tables, stmt.table, stmt.right_table, stmt.left_col,
                          stmt.right_col,
                          IF stmt.join_type = "LEFT" THEN "INNER" ELSE "LEFT")
            left_count == IF stmt.join_type = "LEFT" THEN Len(result.rows) ELSE Len(other)
            inner_count == IF stmt.join_type = "LEFT" THEN Len(other) ELSE Len(result.rows)
        IN /\ result.ok
           /\ left_count >= inner_count
           /\ left_count = inner_count <=> LoneLeft = {}

\* a LEFT join with a matched and an unmatched left row
C14_Witness ==
    /\ JoinStmt
    /\ stmt.join_type = "LEFT"
    /\ stmt.table # stmt.right_table
    /\ MatchedPairs # {}
    /\ LoneLeft # {}
    /\ Len(result.rows) = 2

\* C15: the INNER join emits exactly one merged row for every pair of a left
\* and a right row whose join values are equal and non-NULL, and no other
\* row, in left-row-major, then right-row order; a row whose join value is
\* NULL contributes nothing.
C15_InnerJoinPairs ==
    (JoinStmt /\ stmt.join_type = "INNER") =>
        /\ result.ok
        /\ Len(result.rows) = Cardinality(MatchedPairs)
        /\ \A p \in MatchedPairs :
               result.rows[PairRank(p)] =
                   Merged(stmt.table, stmt.right_table,
                          TableOf(tables, stmt.table), TableOf(tables, stmt.right_table),
                          LeftRows[p[1]], RightRows[p[2]])

\* an INNER join of two rows with two rows that emitted the two matching
\* pairs of one left row and nothing for the other
C15_Witness ==
    /\ JoinStmt
    /\ stmt.join_type = "INNER"
    /\ Len(LeftRows) = 2
    /\ Len(RightRows) = 2
    /\ Len(result.rows) = 2
    /\ \E l \in 1..2 : MatchedPairs = {<<l, 1>>, <<l, 2>>}

\* an INNER join where a left and a right row have NULL join values
C15_WitnessNull ==
    /\ JoinStmt
    /\ stmt.join_type = "INNER"
    /\ Len(result.rows) = 1
    /\ \E l \in 1..Len(LeftRows) : RowGet(LeftRows[l], stmt.left_col) = Null
    /\ \E r \in 1..Len(RightRows) : RowGet(RightRows[r], stmt.right_col) = Null

Qualified(table_name, c) == table_name \o "." \o c

\* the name under which a joined row has column c of the table named side,
\* other being the table on the other side of the join
JoinedName(side, other, c) ==
    IF c \in ColumnNames(TableOf(tables, other)) THEN Qualified(side, c) ELSE c

\* the joined row has the values of the left row (or NULLs) and of the right
\* row (or NULLs) under their names, and nothing else
Carries(row, left_row, right_row, left_null, right_null) ==
    /\ Len(row) = Len(TableOf(tables, stmt.table).column_order)
                  + Len(TableOf(tables, stmt.right_table).column_order)
    /\ \A c \in ColumnNames(TableOf(tables, stmt.table)) :
           /\ DHas(row, JoinedName(stmt.table, stmt.right_table, c))
           /\ DGet(row, JoinedName(stmt.table, stmt.right_table, c), Null)
                  = IF left_null THEN Null ELSE left_row[c]
    /\ \A c \in ColumnNames(TableOf(tables, stmt.right_table)) :
           /\ DHas(row, JoinedName(stmt.right_table, stmt.table, c))
           /\ DGet(row, JoinedName(stmt.right_table, stmt.table, c), Null)
                  = IF right_null THEN Null ELSE right_row[c]

\* C16: the merged row of a matched pair carries the value of every column
\* of the left row and of every column of the right row, a name present on
\* both sides as leftTable.column and rightTable.column, a name present on
\* one side unqualified; no value is dropped, also in a self-join.
C16_MergedRowComplete ==
    (JoinStmt /\ stmt.join_type = "INNER"
              /\ Len(result.rows) = Cardinality(MatchedPairs)) =>
        \A p \in MatchedPairs :
            Carries(result.rows[PairRank(p)], LeftRows[p[1]], RightRows[p[2]],
                    FALSE, FALSE)

\* the place of the row of unmatched left row l in the result
LonePlace(l) ==
    Cardinality({q \in MatchedPairs : q[1] < l})
    + Cardinality({q \in LoneLeft : q < l}) + 1

\* C17: in a LEFT join every left row without a match yields exactly one
\* row, at its place in left-table order, with the left row's values and
\* NULL for every column of the right table, a column whose name collides
\* with a left column included, under the same names as in matched rows.
C17_UnmatchedLeftRow ==
    (JoinStmt /\ stmt.join_type = "LEFT") =>
        /\ Len(result.rows) = Cardinality(MatchedPairs) + Cardinality(LoneLeft)
        /\ \A l \in LoneLeft :
               Carries(result.rows[LonePlace(l)], LeftRows[l], LeftRows[l],
                       FALSE, TRUE)

DeleteStep(name) ==
    /\ stmt'.command = "DELETE"
    /\ stmt'.table = name
    /\ DHas(tables, name)

\* C18: delete removes exactly the rows that satisfy the predicate (all rows
\* when there is none) together with their index entries, keeps every other
\* row unchanged and in its original relative order, and returns the number
\* of rows removed.
C18_DeleteExact ==
    [][\A name \in TableNames : DeleteStep(name) =>
          LET old == TableOf(tables, name)
              new == TableOf(tables', name)
              where == ParseWhere(stmt'.conds)
              Stays(row) == ~SatisfiesAll(row, CondsOf(where))
          IN /\ result'.ok
             /\ new.rows = SelectSeq(old.rows, Stays)
             /\ result'.count = Len(old.rows) - Len(new.rows)
             /\ IndexesExact(new)
             /\ new.columns = old.columns
             /\ new.next_row_id = old.next_row_id]_vars

\* DELETE FROM t WHERE age > 0 has removed the first of two rows and kept
\* the second, whose age is NULL
C18_Witness ==
    /\ stmt.command = "DELETE"
    /\ stmt.conds = WAgeGt0
    /\ result.ok
    /\ result.count = 1
    /\ \E table \in Existing :
           /\ Len(table.rows) = 1
           /\ table.rows[1]["_row_id"] = IntV(1)
           /\ RowGet(table.rows[1], "age") = Null

CreateIndexStep(name) ==
    /\ stmt'.command = "CREATE_INDEX"
    /\ stmt'.table = name
    /\ DHas(tables, name)

\* C19: createIndex on a column that is indexed already returns ok and
\* changes nothing; every SELECT returns the same rows before and after
\* createIndex; createIndex on a column that is not in the schema returns
\* failure and changes nothing.
C19_IndexIdempotent ==
    [][\A name \in TableNames : CreateIndexStep(name) =>
          LET old == TableOf(tables, name)
              new == TableOf(tables', name)
              column == stmt'.columns[1]
          IN /\ result'.ok <=> column \in ColumnNames(old)
             /\ column \in DOMAIN old.indexes => tables' = tables
             /\ column \notin ColumnNames(old) => tables' = tables /\ disk' = disk
             /\ new.rows = old.rows
             /\ \A input \in SelectInputs :
                    Select(new, input.columns, ParseWhere(input.conds))
                        = Select(old, input.columns, ParseWhere(input.conds))]_vars

\* CREATE INDEX ON t (age) has succeeded on a table of two rows: the index
\* has their entries, and the same statement run again ends in this state
C19_Witness ==
    /\ stmt.command = "CREATE_INDEX"
    /\ stmt.columns = <<"age">>
    /\ result.ok
    /\ \E table \in Existing :
           /\ Len(table.rows) = 2
           /\ "age" \in DOMAIN table.indexes
           /\ LookupExact(table, "age", table.rows[1]["age"])
           /\ CreateIndex(table, "age").table = table

\* every column of the INSERT passes validation and the duplicate check
AllColumnsPass(table, values) ==
    \A j \in 1..Len(table.columns) :
        /\ Validate(table.columns[j].v, InsertValue(table, values, j)) = OK
        /\ ~Collides(table, values, j)

\* C20: a rejected insert leaves the table exactly as it was (row store,
\* indexes, identity counter), and a row is committed, that is appended,
\* indexed and counted, only after every column has passed its checks.
C20_RejectedInsertNoEffect ==
    [][\A name \in TableNames : InsertStep(name) =>
          LET old == TableOf(tables, name)
              new == TableOf(tables', name)
              values == ZipDict(stmt'.columns, stmt'.values)
          IN /\ ~result'.ok => tables' = tables /\ disk' = disk
             /\ result'.ok =>
                    /\ AllColumnsPass(old, values)
                    /\ Len(new.rows) = Len(old.rows) + 1
                    /\ SubSeq(new.rows, 1, Len(old.rows)) = old.rows
                    /\ new.next_row_id = old.next_row_id + 1
                    /\ IndexesExact(new)]_vars

\* INSERT INTO t (email, id) VALUES ('abc', ...) was rejected for the length
\* of the email, the first column, and the table has its one row, its
\* indexes and its counter as before
C20_Witness ==
    /\ stmt.command = "INSERT"
    /\ ~result.ok
    /\ result.msg.kind = "VARCHAR value too long"
    /\ \E table \in Existing :
           /\ Len(table.rows) = 1
           /\ table.next_row_id = 1
           /\ IndexesExact(table)
           /\ Describes(disk, tables)

\* the commands that execute answers without a snapshot write
ReadOnly == {"SELECT", "SELECT_JOIN", "SHOW_TABLES", "DESCRIBE"}

\* C21: a SELECT, a SELECT with JOIN, a SHOW TABLES or a DESCRIBE, whether
\* it succeeds, fails or is caught, leaves every table (schema, rows,
\* indexes, identity counter) and the snapshot file as they were.
C21_ReadOnlyCommandsFrame ==
    [][stmt'.command \in ReadOnly => tables' = tables /\ disk' = disk]_vars

\* a DESCRIBE of a missing table has failed while t holds a row
C21_Witness ==
    /\ stmt.command = "DESCRIBE"
    /\ ~result.ok
    /\ DHas(tables, "t")
    /\ TableOf(tables, "t").rows # <<>>
    /\ disk.exists

\* a SHOW TABLES has listed the table t
C21_WitnessShow ==
    /\ stmt.command = "SHOW_TABLES"
    /\ result.ok
    /\ result.rows = <<"t">>

\* C22: when the snapshot write after a successful mutating command fails,
\* execute returns normally, the mutation is in the in-memory tables (an
\* INSERT has added its row), and the snapshot file is the one that was
\* there before the command.
C22_FailedSaveKeepsSnapshot ==
    [][(stmt'.command \in Mutating /\ result'.ok /\ fs # "ok" /\ fs' = fs) =>
          /\ ~result'.raised
          /\ stmt'.command = "INSERT" =>
                Len(TableOf(tables', stmt'.table).rows)
                    = Len(TableOf(tables, stmt'.table).rows) + 1
          /\ disk' = disk]_vars

\* C23: in every table, whatever its columns, the identities of the rows
\* are integers that increase strictly along the row store (which keeps
\* insertion order) and lie below the identity counter, so that they are
\* unique and the next insert receives a greater one than any assigned so far.
C23_IdentitiesIncrease ==
    \A table \in Existing :
        \A j \in 1..Len(table.rows) :
            /\ table.rows[j]["_row_id"].t = "int"
            /\ table.rows[j]["_row_id"].i < table.next_row_id
            /\ j > 1 => table.rows[j - 1]["_row_id"].i < table.rows[j]["_row_id"].i

\* the names of a projection list that are columns of the table, in the
\* order of the list
Requested(table, columns) ==
    LET known(col) == col \in ColumnNames(table) IN SelectSeq(columns, known)

\* C24: no row returned by a SELECT or a SELECT with JOIN carries a row
\* identity under the name _row_id, and the rows of a SELECT with a
\* projection list have as their names exactly the requested names that are
\* columns of the table, in the order of the list.
C24_RowsOmitIdentity ==
    (stmt.command \in {"SELECT", "SELECT_JOIN"} /\ result.ok) =>
        \A j \in 1..Len(result.rows) :
            /\ \A q \in 1..Len(result.rows[j]) :
                   result.rows[j][q].k = "_row_id" => result.rows[j][q].v = Null
            /\ (stmt.command = "SELECT" /\ stmt.columns # <<>>) =>
                   DKeys(result.rows[j])
                       = Requested(TableOf(tables, stmt.table), stmt.columns)

\* C25: a CREATE TABLE with the name of an existing table fails and leaves
\* every table and the snapshot as they were; a CREATE TABLE with a name
\* that is free, be it after a DROP TABLE of a table that held rows, yields
\* a table with no rows, no index entries and an identity counter of 0; a
\* DROP TABLE of an existing table removes it from the registry.
C25_CreateAndDrop ==
    [][/\ stmt'.command = "CREATE_TABLE" =>
            IF DHas(tables, stmt'.table)
            THEN ~result'.ok /\ tables' = tables /\ disk' = disk
            ELSE /\ result'.ok
                 /\ DHas(tables', stmt'.table)
                 /\ TableOf(tables', stmt'.table).rows = <<>>
                 /\ TableOf(tables', stmt'.table).next_row_id = 0
                 /\ \A c \in DOMAIN TableOf(tables', stmt'.table).indexes :
                        TableOf(tables', stmt'.table).indexes[c] = EmptyIndex
       /\ (stmt'.command = "DROP_TABLE" /\ DHas(tables, stmt'.table)) =>
            /\ result'.ok
            /\ ~DHas(tables', stmt'.table)
            /\ tables' = DDel(tables, stmt'.table)]_vars

\* a CREATE TABLE t has failed on a table t that holds a row and has
\* handed out an identity
C25_Witness ==
    /\ stmt.command = "CREATE_TABLE"
    /\ ~result.ok
    /\ DHas(tables, "t")
    /\ TableOf(tables, "t").rows # <<>>
    /\ TableOf(tables, "t").next_row_id > 0

\* C26: an UPDATE whose SET clause yields no assignment returns (false,
\* message) and leaves every table as it was.
C26_EmptySetRejected ==
    [][(stmt'.command = "UPDATE" /\ stmt'.set = <<>>) =>
          ~result'.ok /\ tables' = tables]_vars

\* C27: an UPDATE of an existing table whose SET clause names a column that
\* the table does not have returns (false, unknown column) and leaves every
\* table as it was, whatever rows the table holds and the WHERE clause
\* selects.
C27_UnknownSetColumnRejected ==
    [][(/\ stmt'.command = "UPDATE"
        /\ DHas(tables, stmt'.table)
        /\ \E j \in 1..Len(stmt'.set) :
               stmt'.set[j].k \notin ColumnNames(TableOf(tables, stmt'.table))) =>
          /\ ~result'.ok
          /\ result'.msg.kind = "Unknown column"
          /\ tables' = tables]_vars

\* the values a statement supplies, and whether one of them is a text
\* longer than its VARCHAR column declares
Assigned ==
    IF stmt'.command = "INSERT" THEN ZipDict(stmt'.columns, stmt'.values) ELSE stmt'.set

TooLong(table, values) ==
    \E j \in 1..Len(values) :
        /\ values[j].k \in ColumnNames(table)
        /\ values[j].v # Null
        /\ LET col == DGet(table.columns, values[j].k, Null) IN
              /\ col.data_type = "VARCHAR"
              /\ col.length # Null
              /\ Len(PyStr(values[j].v)) > col.length.i

\* C28: an INSERT, or an UPDATE that selects a row, which supplies for a
\* VARCHAR(n) column a value whose text is longer than n, for every n
\* including 0, is rejected and leaves every table as it was, with the
\* length violation as its message unless a key of the same row is refused
\* as a duplicate; when no supplied value is longer than its column allows,
\* the statement is not refused for length.
C28_VarcharLengthEnforced ==
    [][(/\ stmt'.command \in {"INSERT", "UPDATE"}
        /\ DHas(tables, stmt'.table)
        /\ stmt'.command = "UPDATE" => TableOf(tables, stmt'.table).rows # <<>>) =>
          IF TooLong(TableOf(tables, stmt'.table), Assigned)
          THEN /\ ~result'.ok
               /\ result'.msg.kind \in {"VARCHAR value too long", "Duplicate value"}
               /\ tables' = tables
          ELSE result'.msg.kind # "VARCHAR value too long"]_vars

\* C29: a call of execute with an INSERT text of placeholders and a list of
\* parameters, one of them a text with a quote, a semicolon and SQL
\* keywords, returns normally, leaves every table in existence, and changes
\* the table as the INSERT of the parameters as literals does.
C29_ParametersAreLiterals ==
    [][(stmt'.command = "" /\ stmt'.values # <<>> /\ DHas(tables, stmt'.table)) =>
          /\ ~result'.raised
          /\ DKeys(tables') = DKeys(tables)
          /\ tables' = DSet(tables, stmt'.table,
                            Insert(TableOf(tables, stmt'.table),
                                   ZipDict(stmt'.columns, stmt'.values)).table)]_vars

\* C30: the columns of a table that own an Index are its PRIMARY KEY and
\* UNIQUE columns when CREATE TABLE has made it, gain the column of each
\* CREATE INDEX that succeeds and nothing else, change with no other step
\* (a restart from the snapshot included), always contain the key columns,
\* and are the same in the table that its saved form loads to.
C30_IndexOwners ==
    [][\A j \in 1..Len(tables') :
          LET name == tables'[j].k
              new == tables'[j].v
          IN /\ KeyColumns(new) \subseteq DOMAIN new.indexes
             /\ tables' # tables =>
                   DOMAIN FromDict(ToDict(new)).indexes = DOMAIN new.indexes
             /\ IF stmt'.command = "CREATE_TABLE" /\ result'.ok
                THEN DOMAIN new.indexes = KeyColumns(new)
                ELSE /\ DHas(tables, name)
                     /\ DOMAIN new.indexes =
                           DOMAIN TableOf(tables, name).indexes
                             \cup (IF stmt'.command = "CREATE_INDEX" /\ result'.ok
                                   THEN {stmt'.columns[1]} ELSE {})]_vars

\* the database has restarted from a snapshot of a table that holds a row
\* and has an index from CREATE INDEX on age
C30_Witness ==
    /\ stmt.command = ""
    /\ result.ok
    /\ DHas(tables, "t")
    /\ TableOf(tables, "t").rows # <<>>
    /\ "age" \in DOMAIN TableOf(tables, "t").indexes
    /\ "age" \notin KeyColumns(TableOf(tables, "t"))

\* the snapshot holds the tables of the database and, for each, the rows
\* the table has in memory
SnapshotRows(snapshot, db_tables) ==
    IF ~snapshot.exists THEN db_tables = <<>>
    ELSE /\ DKeys(snapshot.tables) = DKeys(db_tables)
         /\ \A j \in 1..Len(db_tables) :
                snapshot.tables[j].v.rows = ToDict(db_tables[j].v).rows

\* C34: whenever execute returns, with success or with failure, the rows of
\* every table in the snapshot are the rows of the table in memory (no
\* snapshot write fails in this specification).
C34_SnapshotRowsCurrent ==
    [][(~result'.raised /\ ~(stmt'.command = "" /\ result'.ok)) =>
          SnapshotRows(disk', tables')]_vars

\* C35: a restart from the snapshot gives every table the identity counter
\* that the snapshot holds for it.
C35_CounterRestored ==
    [][(stmt'.command = "" /\ result'.ok) =>
          /\ DKeys(tables') = DKeys(disk.tables)
          /\ \A j \in 1..Len(tables') :
                 tables'[j].v.next_row_id = disk.tables[j].v.next_row_id]_vars

\* the primary-key columns of a table
PrimaryKeys(table) ==
    {table.columns[j].k : j \in {q \in 1..Len(table.columns) :
        table.columns[q].v.primary_key}}

\* C37: an INSERT that omits the primary-key column is never refused
\* because the value assigned to the key, the identity counter, is a key of
\* a row of the table.
C37_AssignedKeyIsFree ==
    [][\A name \in TableNames : InsertStep(name) =>
          \A pk \in PrimaryKeys(TableOf(tables, name)) :
              (\A j \in 1..Len(stmt'.columns) : stmt'.columns[j] # pk) =>
                  result'.msg # Msg("Duplicate value", pk)]_vars

\* C31: in every table the ordered column list names no column twice and
\* has as many entries as the table has column descriptors, also when the
\* CREATE TABLE text repeated a name.
C31_ColumnNamesUnique ==
    \A table \in Existing :
        /\ \A j, q \in 1..Len(table.column_order) :
               table.column_order[j] = table.column_order[q] => j = q
        /\ Len(table.column_order) = Len(table.columns)

\* a float that is not a whole number
Fractional(value) == value.t = "float" /\ value.i % 10 # 0

SuppliesFraction(table, values) ==
    \E j \in 1..Len(values) :
        /\ values[j].k \in ColumnNames(table)
        /\ DGet(table.columns, values[j].k, Null).data_type = "INT"
        /\ Fractional(values[j].v)

\* C32: an INSERT or an UPDATE that supplies a number with a fraction, such
\* as 3.7, for an INT column stores nothing: every table is as it was, and
\* the INSERT is refused with the type error of the column (or as a
\* duplicate of a key).
C32_FractionRejected ==
    [][(/\ stmt'.command \in {"INSERT", "UPDATE"}
        /\ DHas(tables, stmt'.table)
        /\ SuppliesFraction(TableOf(tables, stmt'.table), Assigned)) =>
          /\ tables' = tables
          /\ stmt'.command = "INSERT" =>
                /\ ~result'.ok
                /\ result'.msg.kind \in {"Invalid INT value", "Duplicate value"}]_vars

\* the clause with every separating word written AND
InCapitals(text) ==
    [j \in 1..Len(text) |-> IF j = 1 THEN text[j] ELSE [text[j] EXCEPT !.sep = "AND"]]

HasOtherSpelling(text) == \E j \in 2..Len(text) : text[j].sep # "AND"

\* C33: a SELECT, an UPDATE or a DELETE whose WHERE clause separates its
\* conditions with an and that is not in capitals returns the rows, or
\* leaves the tables, that the same statement with AND in capitals does.
C33_AndAnyCase ==
    [][(/\ stmt'.command \in {"SELECT", "UPDATE", "DELETE"}
        /\ HasOtherSpelling(clause')
        /\ DHas(tables, stmt'.table)) =>
          LET table == TableOf(tables, stmt'.table)
              where == ParseWhere(ParseWhereText(InCapitals(clause')))
          IN CASE stmt'.command = "SELECT" ->
                    /\ result'.ok
                    /\ result'.rows = Select(table, stmt'.columns, where).rows
               [] stmt'.command = "UPDATE" ->
                    tables' = DSet(tables, stmt'.table,
                                   Update(table, stmt'.set, where).table)
               [] OTHER ->
                    tables' = DSet(tables, stmt'.table, Delete(table, where).table)]_vars

\* the conditions of a clause as written, each on the column it names
AsWritten(text) ==
    [j \in 1..Len(text) |-> [col |-> text[j].col, op |-> text[j].op, val |-> text[j].val]]

\* the rows of old that a DELETE has removed, or an UPDATE has changed
Affected(command, old, new) ==
    IF command = "DELETE"
    THEN {old.rows[j] : j \in {q \in 1..Len(old.rows) :
             \A p \in 1..Len(new.rows) : new.rows[p]["_row_id"] # old.rows[q]["_row_id"]}}
    ELSE {old.rows[j] : j \in {q \in 1..Len(old.rows) : new.rows[q] # old.rows[q]}}

\* C36: every row that a DELETE or an UPDATE written with a WHERE clause
\* removes or changes satisfies each condition of the clause as written,
\* also a condition whose column is qualified with the table name.
C36_WhereNeverWidened ==
    [][(/\ stmt'.command \in {"UPDATE", "DELETE"}
        /\ clause' # <<>>
        /\ DHas(tables, stmt'.table)) =>
          \A row \in Affected(stmt'.command, TableOf(tables, stmt'.table),
                               TableOf(tables', stmt'.table)) :
              SatisfiesAll(row, AsWritten(clause'))]_vars

\* the table with the same rows in the same order, every internal row
\* identity one higher: the table of a database in which one more row had
\* been inserted and deleted before these rows were inserted
Renumbered(table) ==
    LET moved(v) == [v EXCEPT !.i = @ + 1] IN
    [table EXCEPT
        !.rows = [j \in 1..Len(table.rows) |->
                     [table.rows[j] EXCEPT !["_row_id"] = moved(@)]],
        !.indexes = [c \in DOMAIN table.indexes |->
                        [key \in DOMAIN table.indexes[c] |->
                            [j \in 1..Len(table.indexes[c][key]) |->
                                moved(table.indexes[c][key][j])]]],
        !.next_row_id = table.next_row_id + 1]

RenumberedTables(db_tables) ==
    [j \in 1..Len(db_tables) |->
        [k |-> db_tables[j].k, v |-> Renumbered(db_tables[j].v)]]

\* C38: the rows a SELECT or a SELECT with JOIN returns are the rows the
\* same query returns from a database whose tables hold the same rows in
\* the same order under other internal row identities, also when the WHERE
\* or the ON clause names the internal identity field.
C38_ResultsIgnoreIdentities ==
    /\ (stmt.command = "SELECT" /\ result.ok /\ DHas(tables, stmt.table)) =>
          result.rows = Select(Renumbered(TableOf(tables, stmt.table)),
                               stmt.columns, ParseWhere(stmt.conds)).rows
    /\ (/\ stmt.command = "SELECT_JOIN" /\ result.ok
        /\ stmt.columns = <<>> /\ stmt.conds = <<>>) =>
          result.rows = Join(RenumberedTables(tables), stmt.table, stmt.right_table,
                             stmt.left_col, stmt.right_col, stmt.join_type)
====
